---------------------------- MODULE Spec2Model ----------------------------
(***************************************************************************)
(* Telemetry validation of the order agent: the session state machine of   *)
(* src/validation/fsm_processor.py and the cancellation ground truth of    *)
(* src/validation/config_and_policies.py.                                  *)
(*                                                                         *)
(* Python values are modelled as follows.  None, True and False of an      *)
(* optional field are the strings "None", "True", "False"; a value that    *)
(* may or may not be a dict or a str is a record with a kind field.        *)
(* A calendar date is a record [y, m, d]; text that has the YYYY-MM-DD     *)
(* shape is a record of kind "ymd" whose numbers may or may not name a     *)
(* day of the calendar.                                                    *)
(***************************************************************************)
EXTENDS Integers, Sequences, FiniteSets, TLC

None == "None"
True == "True"
False == "False"
Missing == "<missing key>"

(***************************************************************************)
(* Bounds of the model.                                                    *)
(***************************************************************************)
\* rows of the telemetry table, when the rows carry orders, payloads and tool
\* responses
MaxRows == 5

\* rows of the telemetry table, when the rows carry event types alone
MaxFsmRows == 7

\* rows of the telemetry table when the rows are those of a cancellation turn
MaxTurnRows == 6

\* intermediate steps of one agent invocation
MaxSteps == 3

\* calls of attempt_cancel_order
MaxCancelCalls == 2

(***************************************************************************)
(* datetime.date: parsing, ordinals, timedelta.                            *)
(***************************************************************************)
IsLeap(y) == (y % 4 = 0 /\ y % 100 # 0) \/ y % 400 = 0

DaysInMonth(y, m) ==
    IF m = 2 THEN (IF IsLeap(y) THEN 29 ELSE 28)
    ELSE IF m \in {4, 6, 9, 11} THEN 30 ELSE 31

RECURSIVE DaysBeforeMonth(_, _)
DaysBeforeMonth(y, m) ==
    IF m <= 1 THEN 0 ELSE DaysBeforeMonth(y, m - 1) + DaysInMonth(y, m - 1)

DaysBeforeYear(y) ==
    (y - 1) * 365 + ((y - 1) \div 4) - ((y - 1) \div 100) + ((y - 1) \div 400)

\* date.toordinal(): the comparison and the arithmetic of dates go through it
ToOrdinal(dt) == DaysBeforeYear(dt.y) + DaysBeforeMonth(dt.y, dt.m) + dt.d

IsCalendarDay(y, m, d) ==
    /\ y \in 1..9999
    /\ m \in 1..12
    /\ d \in 1..DaysInMonth(y, m)

\* date.fromisoformat(text): a date, or ValueError; TypeError when text is no str
DateFromIsoformat(text) ==
    IF text.kind = "nonstr" THEN [kind |-> "TypeError"]
    ELSE IF text.kind = "ymd" /\ IsCalendarDay(text.y, text.m, text.d)
         THEN [kind |-> "date", y |-> text.y, m |-> text.m, d |-> text.d]
         ELSE [kind |-> "ValueError"]

\* event_timestamp_str.split('.')[0]: the text before the first dot
SplitAtDot(ts) ==
    IF ts.kind = "iso" THEN [ts EXCEPT !.frac = FALSE] ELSE ts

\* datetime.fromisoformat(text).date()
DatetimeFromIsoformatDate(ts) ==
    IF ts.kind = "iso" /\ ~ts.frac /\ IsCalendarDay(ts.y, ts.m, ts.d)
    THEN [kind |-> "date", y |-> ts.y, m |-> ts.m, d |-> ts.d]
    ELSE [kind |-> "ValueError"]

\* a value is falsy: None, the empty string, the empty dict
Falsy(v) == v.kind \in {"missing", "none", "empty"}

(***************************************************************************)
(* The policy configuration read at import time.                           *)
(***************************************************************************)
\* A number under a key of the configuration is the set holding it; the empty
\* set is a key the file leaves out.
Absent == {}
Given(n) == {n}

\* dict.get(key, default) on such a key
Get(entry, default) == IF entry = {} THEN default ELSE CHOOSE n \in entry : TRUE

NoList == [kind |-> "missing"]
List(items) == [kind |-> "list", items |-> items]

\* POLICIES_CONFIG_TELEMETRY = {} when the file is missing or has no policies
EmptyPolicies == [kind |-> "empty"]

\* cancellation_policy_cfg.get("standard_window_days", 10)
StandardWindow(policy_config) == Get(policy_config.standard_window_days, 10)

\* cancellation_policy_cfg.get("premium_customer_extension_days", 5)
PremiumExtension(policy_config) ==
    Get(policy_config.premium_customer_extension_days, 5)

\* cancellation_policy_cfg.get("status_denylist", [])
DeniedStatuses(policy_config) ==
    IF policy_config.status_denylist.kind = "missing" THEN {}
    ELSE policy_config.status_denylist.items

\* TelemetryOrder.__init__: ordered_on stays None when the text does not parse
TelemetryOrder(ordered_on_str, status_str, is_premium) ==
    LET parsed == DateFromIsoformat(ordered_on_str)
    IN  [ordered_on  |-> IF Falsy(ordered_on_str) \/ parsed.kind = "ValueError"
                         THEN [kind |-> "none"] ELSE parsed,
         status      |-> status_str,
         is_premium  |-> is_premium]

\* variant: the boundary day is outside the window
WithinTimeWindowStrict(order, policy_config, evaluation_date) ==
    LET current_window_days ==
            StandardWindow(policy_config)
            + (IF order.is_premium THEN PremiumExtension(policy_config) ELSE 0)
    IN  IF order.ordered_on.kind # "date" THEN FALSE
        ELSE ToOrdinal(evaluation_date)
                 < ToOrdinal(order.ordered_on) + current_window_days

historical_check_within_time_window(order, policy_config, evaluation_date) ==
    LET current_window_days ==
            StandardWindow(policy_config)
            + (IF order.is_premium THEN PremiumExtension(policy_config) ELSE 0)
    IN  IF order.ordered_on.kind # "date" THEN FALSE
        ELSE ToOrdinal(evaluation_date)
                 <= ToOrdinal(order.ordered_on) + current_window_days

\* variant: every status permits cancellation
StatusCheckIgnoresDenylist(order, policy_config) == TRUE

historical_check_order_status_for_cancellation(order, policy_config) ==
    order.status \notin DeniedStatuses(policy_config)

\* customer_info.get("is_premium", False) if isinstance(customer_info, dict)
IsPremiumOf(order_details) ==
    /\ order_details.customer.kind = "dict"
    /\ order_details.customer.is_premium = True

\* variant: the status is checked before the parsed order date
GroundTruthStatusBeforeDate(order_details, event_timestamp_str, policies) ==
    IF Falsy(order_details) THEN None
    ELSE IF Falsy(order_details.ordered_on) \/ order_details.status = None
    THEN None
    ELSE LET evaluation_date ==
                 DatetimeFromIsoformatDate(SplitAtDot(event_timestamp_str))
             telemetry_order ==
                 TelemetryOrder(order_details.ordered_on, order_details.status,
                                IsPremiumOf(order_details))
         IN  IF evaluation_date.kind = "ValueError" THEN None
             ELSE IF DateFromIsoformat(order_details.ordered_on).kind = "TypeError"
             THEN "TypeError"
             ELSE IF /\ ~Falsy(policies)
                     /\ ~historical_check_order_status_for_cancellation(
                             telemetry_order, policies)
             THEN False
             ELSE IF telemetry_order.ordered_on.kind = "none" THEN None
             ELSE IF Falsy(policies) THEN None
             ELSE IF ~historical_check_within_time_window(
                         telemetry_order, policies, evaluation_date)
             THEN False
             ELSE True

\* date.today(): the day on which the code runs
VARIABLE wall_clock

\* variant: an empty configuration is evaluated with the defaults of the
\* rules
GroundTruthDefaultsWhenEmpty(order_details, event_timestamp_str, policies) ==
    IF Falsy(order_details) THEN None
    ELSE IF Falsy(order_details.ordered_on) \/ order_details.status = None
    THEN None
    ELSE LET evaluation_date ==
                 DatetimeFromIsoformatDate(SplitAtDot(event_timestamp_str))
             telemetry_order ==
                 TelemetryOrder(order_details.ordered_on, order_details.status,
                                IsPremiumOf(order_details))
             policy_config ==
                 IF Falsy(policies)
                 THEN [kind |-> "dict", standard_window_days |-> Absent,
                       premium_customer_extension_days |-> Absent,
                       status_denylist |-> NoList]
                 ELSE policies
         IN  IF evaluation_date.kind = "ValueError" THEN None
             ELSE IF DateFromIsoformat(order_details.ordered_on).kind = "TypeError"
             THEN "TypeError"
             ELSE IF telemetry_order.ordered_on.kind = "none" THEN None
             ELSE IF ~historical_check_order_status_for_cancellation(
                         telemetry_order, policy_config)
             THEN False
             ELSE IF ~historical_check_within_time_window(
                         telemetry_order, policy_config, evaluation_date)
             THEN False
             ELSE True

\* variant: the window is evaluated on the day of the run, as the live rule
\* does, when the event's timestamp parses
GroundTruthAtWallClock(order_details, event_timestamp_str, policies) ==
    IF Falsy(order_details) THEN None
    ELSE IF Falsy(order_details.ordered_on) \/ order_details.status = None
    THEN None
    ELSE LET evaluation_date ==
                 IF DatetimeFromIsoformatDate(
                        SplitAtDot(event_timestamp_str)).kind = "date"
                 THEN wall_clock ELSE [kind |-> "ValueError"]
             telemetry_order ==
                 TelemetryOrder(order_details.ordered_on, order_details.status,
                                IsPremiumOf(order_details))
         IN  IF evaluation_date.kind = "ValueError" THEN None
             ELSE IF DateFromIsoformat(order_details.ordered_on).kind = "TypeError"
             THEN "TypeError"
             ELSE IF telemetry_order.ordered_on.kind = "none" THEN None
             ELSE IF Falsy(policies) THEN None
             ELSE IF ~historical_check_order_status_for_cancellation(
                         telemetry_order, policies)
             THEN False
             ELSE IF ~historical_check_within_time_window(
                         telemetry_order, policies, evaluation_date)
             THEN False
             ELSE True

\* "None", "True", "False", or "TypeError" when date.fromisoformat is handed
\* a value that is not a str (only ValueError is caught)
get_policy_ground_truth(order_details, event_timestamp_str, policies) ==
    IF Falsy(order_details) THEN None
    ELSE IF Falsy(order_details.ordered_on) \/ order_details.status = None
    THEN None
    ELSE LET evaluation_date ==
                 DatetimeFromIsoformatDate(SplitAtDot(event_timestamp_str))
             telemetry_order ==
                 TelemetryOrder(order_details.ordered_on, order_details.status,
                                IsPremiumOf(order_details))
         IN  IF evaluation_date.kind = "ValueError" THEN None
             ELSE IF DateFromIsoformat(order_details.ordered_on).kind = "TypeError"
             THEN "TypeError"
             ELSE IF telemetry_order.ordered_on.kind = "none" THEN None
             ELSE IF Falsy(policies) THEN None
             ELSE IF ~historical_check_order_status_for_cancellation(
                         telemetry_order, policies)
             THEN False
             ELSE IF ~historical_check_within_time_window(
                         telemetry_order, policies, evaluation_date)
             THEN False
             ELSE True

(***************************************************************************)
(* The live policy check of the mock API (mock_api_service).               *)
(***************************************************************************)
\* OrderStatus
OrderStatus == {"ordered", "fulfilled", "delivering", "delivered", "cancelled"}

\* the Order row an order_tracker snapshot was serialised from: ordered_on is
\* a date, status an OrderStatus, customer a Customer or None
Order(order_details) ==
    [ordered_on |-> DateFromIsoformat(order_details.ordered_on),
     status |-> order_details.status,
     customer |-> order_details.customer]

\* POLICIES_CONFIG.get("cancellation", {})
DomainPolicyConfig(policies) ==
    IF Falsy(policies)
    THEN [kind |-> "dict", standard_window_days |-> Absent,
          premium_customer_extension_days |-> Absent, status_denylist |-> NoList]
    ELSE policies

\* cancellation_rules.check_within_time_window; today is date.today()
check_within_time_window(order, policy_config, today) ==
    LET standard_window == Get(policy_config.standard_window_days, 10)
        premium_extension ==
            Get(policy_config.premium_customer_extension_days, 0)
        current_window_days ==
            standard_window
            + (IF order.customer.kind = "dict" /\ order.customer.is_premium = True
               THEN premium_extension ELSE 0)
    IN  ToOrdinal(today) <= ToOrdinal(order.ordered_on) + current_window_days

\* cancellation_rules.check_order_status_for_cancellation
check_order_status_for_cancellation(order, policy_config) ==
    LET denied_statuses ==
            IF policy_config.status_denylist.kind = "missing" THEN {}
            ELSE policy_config.status_denylist.items
    IN  order.status \notin denied_statuses

\* policy_checker.check_policies: PolicyDecision.allowed; the rules of
\* cancel_order are the status rule, then the time window
check_policies(order, action, today, policies) ==
    IF action \notin {"cancel_order", "return_order"} THEN False
    ELSE IF action = "return_order" THEN True
    ELSE LET domain_specific_policy_config == DomainPolicyConfig(policies)
         IN  IF domain_specific_policy_config.status_denylist.kind = "number"
             THEN False      \* lines 62-65: `in` on a number raises TypeError
             ELSE IF ~check_order_status_for_cancellation(
                     order, domain_specific_policy_config)
             THEN False
             ELSE IF ~check_within_time_window(
                         order, domain_specific_policy_config, today)
             THEN False
             ELSE True


(***************************************************************************)
(* Telemetry events.  An event is a row of the telemetry table after       *)
(* parse_event_row: every column is present, None when the row has NULL.   *)
(***************************************************************************)
\* variant: a final response may be followed by the next user query
TransitionsChainingTurns ==
    [t \in {"USER_QUERY_RECEIVED", "AGENT_DECISION_INTENT",
            "AGENT_TOOL_EXECUTED", "AGENT_FINAL_RESPONSE"} |->
        CASE t = "USER_QUERY_RECEIVED" ->
                 {"AGENT_FINAL_RESPONSE", "AGENT_DECISION_INTENT"}
          [] t = "AGENT_DECISION_INTENT" -> {"AGENT_TOOL_EXECUTED"}
          [] t = "AGENT_TOOL_EXECUTED" ->
                 {"AGENT_DECISION_INTENT", "AGENT_FINAL_RESPONSE"}
          [] t = "AGENT_FINAL_RESPONSE" -> {"USER_QUERY_RECEIVED"}]

VALID_TRANSITIONS ==
    [t \in {"USER_QUERY_RECEIVED", "AGENT_DECISION_INTENT",
            "AGENT_TOOL_EXECUTED", "AGENT_FINAL_RESPONSE"} |->
        CASE t = "USER_QUERY_RECEIVED" ->
                 {"AGENT_FINAL_RESPONSE", "AGENT_DECISION_INTENT"}
          [] t = "AGENT_DECISION_INTENT" -> {"AGENT_TOOL_EXECUTED"}
          [] t = "AGENT_TOOL_EXECUTED" ->
                 {"AGENT_DECISION_INTENT", "AGENT_FINAL_RESPONSE"}
          [] t = "AGENT_FINAL_RESPONSE" -> {}]

INITIAL_STATE_TYPE == "USER_QUERY_RECEIVED"

EventTypes ==
    {"USER_QUERY_RECEIVED", "AGENT_DECISION_INTENT", "AGENT_TOOL_EXECUTED",
     "AGENT_FINAL_RESPONSE", "AGENT_ERROR"}

\* the (agent_model_name, system_prompt_name) pairs under test
FirstConfig == <<"model-a", "prompt-1">>
SecondConfig == <<"model-b", "prompt-1">>

Configs == {FirstConfig, SecondConfig}

OrderIds == {"ORD1", "ORD2"}

\* str.lower() on the letters the queries use
LowerChar(c) ==
    CASE c = "C" -> "c" [] c = "A" -> "a" [] c = "N" -> "n"
      [] c = "E" -> "e" [] c = "L" -> "l" [] OTHER -> c

\* variant: the query is searched as it was written
AsWritten(text) == text

\* str.lower, on the letters of the word
Lower(text) == [k \in 1..Len(text) |-> LowerChar(text[k])]

\* needle in text
Contains(text, needle) ==
    \E k \in 1..(Len(text) - Len(needle) + 1) :
        SubSeq(text, k, k + Len(needle) - 1) = needle

CancelWord == <<"c", "a", "n", "c", "e", "l">>

\* user_query of a USER_QUERY_RECEIVED row: text, or NULL
CancelQuery ==
    [kind |-> "str", text |-> <<"C", "a", "n", "c", "e", "l", " ", "i", "t">>]

UserQueries ==
    { CancelQuery,
      [kind |-> "str", text |-> <<"c", "a", "n", " ", "i", "t">>],
      [kind |-> "none"] }

NoText == [kind |-> "none"]

\* agent_generated_payload after decoding: None, or a dict
NoPayload == [kind |-> "none"]

CancellationPayload(eligibility) ==
    [kind |-> "dict", action_under_consideration |-> "order_cancellation",
     perceived_eligibility_for_action |-> eligibility]

\* eligibility is true, false, absent, or a value that is not a boolean
Payloads ==
    {NoPayload}
    \cup { [kind |-> "dict", action_under_consideration |-> "order_tracking",
            perceived_eligibility_for_action |-> None] }
    \cup { CancellationPayload(el) : el \in {True, False, None, "yes"} }

\* text of a date column
DateText(y, m, d) == [kind |-> "ymd", y |-> y, m |-> m, d |-> d]

\* timestamp text
Timestamp(y, m, d, frac) ==
    [kind |-> "iso", y |-> y, m |-> m, d |-> d, frac |-> frac]

\* the decoded response of order_tracker: an order as the API returns it
OrderSnapshot(order_id, ordered_on, status, customer) ==
    [kind |-> "dict", order_id |-> order_id, ordered_on |-> ordered_on,
     status |-> status, customer |-> customer, success |-> Missing]

\* the decoded response of order_canceller
CancelResponse(success) ==
    [kind |-> "dict", order_id |-> None, ordered_on |-> [kind |-> "missing"],
     status |-> None, customer |-> [kind |-> "missing"], success |-> success]

\* a response that did not decode to a dict (an error string, or NULL)
NoResponse == [kind |-> "none"]

StandardCustomer == [kind |-> "dict", is_premium |-> False]
PremiumCustomer == [kind |-> "dict", is_premium |-> True]

\* snapshots the sessions of the model carry: inside the window, outside
\* the window, and without an order date
SessionSnapshots ==
    { OrderSnapshot("ORD1", od, "ordered", StandardCustomer) :
        od \in { DateText(2024, 1, 1), DateText(2023, 11, 1),
                 [kind |-> "missing"] } }
    \cup { OrderSnapshot("ORD2", DateText(2024, 1, 1), "ordered",
                         StandardCustomer) }

SessionTimestamp == Timestamp(2024, 1, 5, TRUE)

Event(type, names, query, oid, tool, raw, success, payload) ==
    [event_type |-> type, agent_model_name |-> names[1],
     system_prompt_name |-> names[2], user_query |-> query,
     order_id_identified |-> oid, tool_name |-> tool,
     tool_raw_response |-> raw, tool_response_success |-> success,
     agent_generated_payload |-> payload, timestamp |-> SessionTimestamp]

\* The columns the processor never reads for an event type are NULL.
UserQueryEvents ==
    { Event("USER_QUERY_RECEIVED", FirstConfig, q, None, None, NoResponse, None,
            NoPayload) : q \in UserQueries }
    \cup { Event("USER_QUERY_RECEIVED", SecondConfig, CancelQuery, None, None,
                 NoResponse, None, NoPayload) }

DecisionEvents ==
    { Event("AGENT_DECISION_INTENT", FirstConfig, NoText, "ORD1", None,
            NoResponse, None, p) : p \in Payloads }
    \cup { Event("AGENT_DECISION_INTENT", FirstConfig, NoText, oid, None,
                 NoResponse, None, p) :
             oid \in {None, "ORD2"}, p \in {CancellationPayload(True)} }
    \cup { Event("AGENT_DECISION_INTENT", SecondConfig, NoText, None, None,
                 NoResponse, None, NoPayload) }

TrackerEvents ==
    { Event("AGENT_TOOL_EXECUTED", FirstConfig, NoText, "ORD1", "order_tracker",
            raw, None, NoPayload) :
        raw \in {NoResponse} \cup SessionSnapshots }

CancellerOutcomes ==
    { <<s, NoResponse>> : s \in {True, False, None} }
    \cup { <<None, CancelResponse(s)>> : s \in {True, False, Missing} }
    \cup { <<True, CancelResponse(False)>> }

CancellerEvents ==
    { Event("AGENT_TOOL_EXECUTED", FirstConfig, NoText, "ORD1",
            "order_canceller", o[2], o[1], NoPayload) :
        o \in CancellerOutcomes }

OtherEvents ==
    { Event(t, n, NoText, None, None, NoResponse, None, NoPayload) :
        t \in {"AGENT_FINAL_RESPONSE", "AGENT_ERROR"}, n \in {FirstConfig} }

\* the rows of a cancellation turn: the query, decisions with and without
\* an order_cancellation payload, snapshots outside and inside the window,
\* a denied cancellation, the final response
TurnEvents ==
    { Event("USER_QUERY_RECEIVED", FirstConfig, CancelQuery, None, None,
            NoResponse, None, NoPayload) }
    \cup { Event("AGENT_DECISION_INTENT", FirstConfig, NoText, "ORD1", None,
                 NoResponse, None, p) :
             p \in {NoPayload, CancellationPayload(True),
                    CancellationPayload(None)} }
    \cup { Event("AGENT_DECISION_INTENT", FirstConfig, NoText, None, None,
                 NoResponse, None, CancellationPayload(True)) }
    \cup { Event("AGENT_TOOL_EXECUTED", FirstConfig, NoText, "ORD1",
                 "order_tracker", OrderSnapshot("ORD1", od, "ordered",
                                                StandardCustomer),
                 None, NoPayload) :
             od \in {DateText(2023, 11, 1), DateText(2024, 1, 1)} }
    \cup { Event("AGENT_TOOL_EXECUTED", FirstConfig, NoText, "ORD1",
                 "order_canceller", CancelResponse(False), None, NoPayload) }
    \cup { Event("AGENT_FINAL_RESPONSE", FirstConfig, NoText, None, None,
                 NoResponse, None, NoPayload) }

\* the rows of a turn about an order the rows may or may not name: queries
\* with and without the word, decisions and order_tracker rows with and
\* without order_id_identified, snapshots with and without an order_id
TrackerTurnEvents ==
    { Event("USER_QUERY_RECEIVED", FirstConfig, q, None, None, NoResponse,
            None, NoPayload) : q \in UserQueries \ {[kind |-> "none"]} }
    \cup { Event("AGENT_DECISION_INTENT", FirstConfig, NoText, oid, None,
                 NoResponse, None, p) :
             oid \in {None, "ORD1"},
             p \in {NoPayload, CancellationPayload(True)} }
    \cup { Event("AGENT_TOOL_EXECUTED", FirstConfig, NoText, oid,
                 "order_tracker", OrderSnapshot(rid, DateText(2024, 1, 1),
                                                "ordered", StandardCustomer),
                 None, NoPayload) :
             oid \in {None, "ORD1"}, rid \in {None, "ORD1", "ORD2"} }
    \cup { Event("AGENT_FINAL_RESPONSE", FirstConfig, NoText, None, None,
                 NoResponse, None, NoPayload) }

\* the rows of a cancellation turn in which order_tracker is executed more
\* than once: for the order of the turn within the window, outside it or
\* without ordered_on, or for another order
RetrackEvents ==
    { Event("USER_QUERY_RECEIVED", FirstConfig, CancelQuery, None, None,
            NoResponse, None, NoPayload) }
    \cup { Event("AGENT_DECISION_INTENT", FirstConfig, NoText, "ORD1", None,
                 NoResponse, None, p) :
             p \in {NoPayload, CancellationPayload(True),
                    CancellationPayload(False)} }
    \cup { Event("AGENT_TOOL_EXECUTED", FirstConfig, NoText, "ORD1",
                 "order_tracker", raw, None, NoPayload) :
             raw \in SessionSnapshots }
    \cup { Event("AGENT_FINAL_RESPONSE", FirstConfig, NoText, None, None,
                 NoResponse, None, NoPayload) }

\* dict(row) in parse_event_row: what sqlite3 returns for a BOOLEAN column
\* holding b; true and false come back as the integers 1 and 0
SqliteBoolean(b) ==
    CASE b = True -> "1" [] b = False -> "0" [] OTHER -> None

\* the rows of a turn that calls order_canceller, as the loader hands them
\* over: tool_response_success as stored by the table, NULL or a boolean
CancellerTurnEvents ==
    { Event("USER_QUERY_RECEIVED", FirstConfig, CancelQuery, None, None,
            NoResponse, None, NoPayload) }
    \cup { Event("AGENT_DECISION_INTENT", FirstConfig, NoText, "ORD1", None,
                 NoResponse, None, CancellationPayload(b)) :
             b \in {True, False} }
    \cup { Event("AGENT_TOOL_EXECUTED", FirstConfig, NoText, "ORD1",
                 "order_canceller", raw, SqliteBoolean(direct), NoPayload) :
             direct \in {True, False, None},
             raw \in {NoResponse, CancelResponse(True), CancelResponse(False),
                      CancelResponse(Missing)} }
    \cup { Event("AGENT_FINAL_RESPONSE", FirstConfig, NoText, None, None,
                 NoResponse, None, NoPayload) }

\* the rows of a cancellation turn, and order_tracker rows whose snapshot
\* has a delivered order, or an ordered_on that is a number
NoPolicyEvents ==
    TurnEvents
    \cup { Event("AGENT_TOOL_EXECUTED", FirstConfig, NoText, "ORD1",
                 "order_tracker", OrderSnapshot("ORD1", od, st,
                                                StandardCustomer),
                 None, NoPayload) :
             od \in {DateText(2024, 1, 1), [kind |-> "nonstr"]},
             st \in {"delivered"} }

\* rows that carry an event type and nothing the cancellation logic reads
FsmEvents ==
    { Event("USER_QUERY_RECEIVED", FirstConfig, q, None, None, NoResponse, None,
            NoPayload) : q \in UserQueries \ {CancelQuery} }
    \cup { Event(t, FirstConfig, NoText, None, None, NoResponse, None,
                 NoPayload) : t \in EventTypes \ {"USER_QUERY_RECEIVED"} }

Events ==
    UserQueryEvents \cup DecisionEvents \cup TrackerEvents
    \cup CancellerEvents \cup OtherEvents

(***************************************************************************)
(* data_loader.parse_event_row.  The text of a column is a sequence of     *)
(* tokens: braces, a colon, the key k in double or in single quotes, the   *)
(* words true, True, null, NULL, None, the number 1, a blank, and a word   *)
(* that is neither JSON nor a Python literal.                              *)
(***************************************************************************)
DoubleQuotedKey == "\"k\""
SingleQuotedKey == "'k'"

\* str.strip()
RECURSIVE Strip(_)
Strip(text) ==
    IF text = <<>> THEN text
    ELSE IF Head(text) = " " THEN Strip(Tail(text))
    ELSE IF text[Len(text)] = " " THEN Strip(SubSeq(text, 1, Len(text) - 1))
    ELSE text

\* str.lower()
LowerText(text) ==
    [k \in 1..Len(text) |->
        CASE text[k] = "NULL" -> "null"
          [] text[k] = "True" -> "true"
          [] text[k] = "None" -> "none"
          [] OTHER -> text[k]]

\* both decoders skip the blanks between tokens
WithoutBlanks(text) == SelectSeq(text, LAMBDA tok : tok # " ")

DecodeError == [kind |-> "error"]

\* a scalar of JSON
JsonScalar(tok) ==
    CASE tok = "true" -> [kind |-> "bool", value |-> True]
      [] tok = "null" -> [kind |-> "none"]
      [] tok = "1" -> [kind |-> "int", value |-> 1]
      [] tok = DoubleQuotedKey -> [kind |-> "text", value |-> "k"]
      [] OTHER -> DecodeError

\* a scalar of a Python literal
LiteralScalar(tok) ==
    CASE tok = "True" -> [kind |-> "bool", value |-> True]
      [] tok = "None" -> [kind |-> "none"]
      [] tok = "1" -> [kind |-> "int", value |-> 1]
      [] tok \in {DoubleQuotedKey, SingleQuotedKey} ->
             [kind |-> "text", value |-> "k"]
      [] OTHER -> DecodeError

\* a scalar, {} or {key: scalar}, with the decoder's keys and its scalars
\* (those of a Python literal, or those of JSON)
Decode(text, keys, python) ==
    LET toks == WithoutBlanks(text)
        Scalar(tok) == IF python THEN LiteralScalar(tok) ELSE JsonScalar(tok)
    IN  IF Len(toks) = 1 THEN Scalar(toks[1])
        ELSE IF toks = <<"{", "}">> THEN [kind |-> "dict", items |-> <<>>]
        ELSE IF /\ Len(toks) = 5
                /\ toks[1] = "{" /\ toks[2] \in keys /\ toks[3] = ":"
                /\ Scalar(toks[4]) # DecodeError /\ toks[5] = "}"
        THEN [kind |-> "dict", items |-> <<Scalar(toks[4])>>]
        ELSE DecodeError

\* json.loads(value_str): the value, or JSONDecodeError
JsonLoads(text) == Decode(text, {DoubleQuotedKey}, FALSE)

\* ast.literal_eval(value_str): the value, or ValueError / SyntaxError
LiteralEval(text) ==
    Decode(text, {DoubleQuotedKey, SingleQuotedKey}, TRUE)

JsonFields == {"agent_generated_payload", "tool_input", "tool_raw_response"}

\* the body of the loop of parse_event_row, lines 16-31, on one column
ParseColumn(value) ==
    IF value.kind # "str" THEN value
    ELSE LET value_str == Strip(value.text)
         IN  IF LowerText(value_str) = <<"null">> \/ value_str = <<>>
             THEN [kind |-> "none"]
             ELSE IF JsonLoads(value_str) # DecodeError
             THEN JsonLoads(value_str)
             ELSE IF LiteralEval(value_str) # DecodeError
             THEN LiteralEval(value_str)
             ELSE value

\* parse_event_row, lines 10-32
parse_event_row(r) ==
    [c \in DOMAIN r |-> IF c \in JsonFields THEN ParseColumn(r[c]) ELSE r[c]]

\* what a column of a row holds: NULL, a number, or text
ColumnText(text) == [kind |-> "str", text |-> text]

ColumnValues ==
    { [kind |-> "none"], [kind |-> "int", value |-> 1] }
    \cup { ColumnText(text) :
             text \in { <<"null">>, <<" ", "NULL", " ">>, <<>>, <<" ">>,
                        <<"{", DoubleQuotedKey, ":", "true", "}">>,
                        <<"{", SingleQuotedKey, ":", "True", "}">>,
                        <<"{", DoubleQuotedKey, ":", " ", "1", "}">>,
                        <<"{", DoubleQuotedKey, ":">>,
                        <<" ", "oops">>,
                        <<"None">>,
                        <<"{", SingleQuotedKey, ":", "true", "}">> } }

TableRows ==
    { [kind |-> "row", event_type |-> "AGENT_TOOL_EXECUTED",
       agent_generated_payload |-> p, tool_input |-> ti,
       tool_raw_response |-> raw] :
        p \in ColumnValues, ti \in ColumnValues, raw \in ColumnValues }

NoRow == [kind |-> "none"]
NotParsed == [kind |-> "not parsed"]
NotPrinted == [kind |-> "not printed"]

(***************************************************************************)
(* data_loader.fetch_and_group_telemetry.                                  *)
(***************************************************************************)
MaxTableRows == 3

SessionIds == {"s1", "s2"}

\* rows of the table: a row that decodes, one with an undecodable column,
\* one whose columns are NULL
FetchedRows ==
    { [kind |-> "row", event_type |-> "AGENT_TOOL_EXECUTED",
       agent_generated_payload |-> [kind |-> "none"],
       tool_input |-> [kind |-> "none"], tool_raw_response |-> raw] :
        raw \in { [kind |-> "none"],
                  ColumnText(<<"{", DoubleQuotedKey, ":", "true", "}">>),
                  ColumnText(<<"{", DoubleQuotedKey, ":">>) } }

TableEntries ==
    { [session_id |-> s, row |-> r] : s \in SessionIds, r \in FetchedRows }

\* ORDER BY session_id ASC
SortedBySession(t) ==
    \A k \in 1..(Len(t) - 1) :
        t[k].session_id = t[k + 1].session_id \/ t[k].session_id = "s1"

Tables ==
    { t \in UNION { [1..n -> TableEntries] : n \in 0..MaxTableRows } :
        SortedBySession(t) }

\* defaultdict(list) before any row is appended
EmptyGrouping == [s \in SessionIds |-> <<>>]

(***************************************************************************)
(* reporter.print_final_metrics.  What is printed for one configuration is *)
(* a record of its computed lines; a quotient keeps its two operands.      *)
(***************************************************************************)
Zero == [kind |-> "zero"]
NoInstancesLine == [kind |-> "no instances line"]
NoLine == [kind |-> "no line"]
ZeroDivisionError == [kind |-> "ZeroDivisionError"]

\* n / d
Divide(n, d) ==
    IF d = 0 THEN ZeroDivisionError
    ELSE [kind |-> "quotient", n |-> n, d |-> d]

\* variant: line 49 without its conditional expression
SensitivityUnguarded(tp_c, fn_c) == Divide(tp_c, tp_c + fn_c)

\* line 49
Sensitivity(tp_c, fn_c) ==
    IF tp_c + fn_c > 0 THEN Divide(tp_c, tp_c + fn_c) ELSE Zero

\* lines 16-95: the lines computed for one configuration
ConfigurationLines(counts) ==
    LET total_sessions_for_config == counts["total_sessions"]
        completed_sessions == counts["fsm_completed_sessions"]
        broken_sessions == counts["fsm_broken_sessions"]
        tp_c == counts["tp_cancellation"]
        fp_c == counts["fp_cancellation"]
        tn_c_combined == counts["tn_cancellation"]
                         + counts["tn_cancellation_implicit_avoidance"]
        fn_c == counts["fn_cancellation"]
        total_evaluated_policy_decisions == tp_c + fp_c + tn_c_combined + fn_c
        total_llm_predicts_cancel_and_calls_api ==
            counts["llm_predicts_cancel_api_agrees"]
            + counts["llm_predicts_cancel_api_denies"]
        total_llm_predicts_no_cancel_and_calls_api ==
            counts["llm_predicts_no_cancel_api_agrees"]
            + counts["llm_predicts_no_cancel_api_denies_too"]
        evaluated == total_evaluated_policy_decisions > 0
    IN  [completed_percent |->
             IF total_sessions_for_config # 0
             THEN Divide(completed_sessions, total_sessions_for_config)
             ELSE Zero,
         broken_percent |->
             IF total_sessions_for_config # 0
             THEN Divide(broken_sessions, total_sessions_for_config)
             ELSE Zero,
         avg_depth_completed |->
             IF completed_sessions > 0
             THEN Divide(counts["total_fsm_depth_completed"],
                         completed_sessions)
             ELSE Zero,
         avg_depth_broken |->
             IF broken_sessions > 0
             THEN (IF broken_sessions > 0
                   THEN Divide(counts["fsm_depth_for_broken_sessions"],
                               broken_sessions)
                   ELSE Zero)
             ELSE NoLine,
         accuracy |->
             IF evaluated
             THEN (IF total_evaluated_policy_decisions > 0
                   THEN Divide(tp_c + tn_c_combined,
                               total_evaluated_policy_decisions)
                   ELSE Zero)
             ELSE NoInstancesLine,
         sensitivity |->
             IF evaluated THEN Sensitivity(tp_c, fn_c) ELSE NoInstancesLine,
         specificity |->
             IF evaluated
             THEN (IF tn_c_combined + fp_c > 0
                   THEN Divide(tn_c_combined, tn_c_combined + fp_c)
                   ELSE Zero)
             ELSE NoInstancesLine,
         precision |->
             IF evaluated
             THEN (IF tp_c + fp_c > 0 THEN Divide(tp_c, tp_c + fp_c)
                   ELSE Zero)
             ELSE NoInstancesLine,
         agreement_rate_llm_cancel |->
             IF total_llm_predicts_cancel_and_calls_api > 0
             THEN Divide(counts["llm_predicts_cancel_api_agrees"],
                         total_llm_predicts_cancel_and_calls_api)
             ELSE NoInstancesLine,
         agreement_rate_llm_no_cancel |->
             IF total_llm_predicts_no_cancel_and_calls_api > 0
             THEN Divide(counts["llm_predicts_no_cancel_api_denies_too"],
                         total_llm_predicts_no_cancel_and_calls_api)
             ELSE NoInstancesLine]

\* lines 7-95; keys are the configurations metrics_by_config holds
print_final_metrics(metrics_by_config, keys) ==
    LET lines == [c \in keys |-> ConfigurationLines(metrics_by_config[c])]
    IN  IF keys = {} THEN [kind |-> "no metrics"]
        ELSE IF \E c \in keys :
                    \E l \in DOMAIN lines[c] : lines[c][l] = ZeroDivisionError
             THEN ZeroDivisionError
             ELSE [kind |-> "printed", lines |-> lines]

\* the counters print_final_metrics divides by or adds into a divisor
DivisorCounters ==
    {"total_sessions", "fsm_completed_sessions", "fsm_broken_sessions",
     "tn_cancellation_implicit_avoidance", "tp_cancellation",
     "fp_cancellation", "tn_cancellation", "fn_cancellation"}
    \cup {"llm_predicts_cancel_api_agrees", "llm_predicts_cancel_api_denies",
          "llm_predicts_no_cancel_api_agrees",
          "llm_predicts_no_cancel_api_denies_too"}

\* the values a counter is given when print_final_metrics is called alone
ReportCounts == {0, 2}

\* variant: the rows are fetched one by one while they are grouped
StoreCallsWithLazyCursor == {"connect", "execute", "fetchall", "loop"}

\* the calls made to the store: sqlite3.connect, cursor.execute,
\* cursor.fetchall
StoreCalls == {"connect", "execute", "fetchall"}

(***************************************************************************)
(* Counters.                                                               *)
(***************************************************************************)
ConfusionCells ==
    {"tp_cancellation", "fp_cancellation", "tn_cancellation", "fn_cancellation"}

ToolAgreementCounters ==
    {"order_canceller_api_approvals", "order_canceller_api_denials",
     "llm_predicts_cancel_api_agrees", "llm_predicts_no_cancel_api_agrees",
     "llm_predicts_cancel_api_denies", "llm_predicts_no_cancel_api_denies_too"}

CounterNames ==
    {"total_sessions", "fsm_broken_sessions", "fsm_depth_for_broken_sessions",
     "total_fsm_depth_completed", "fsm_completed_sessions",
     "tn_cancellation_implicit_avoidance", "cancellation_decisions_made_by_llm",
     "llm_eligibility_not_stated", "cancellation_evaluations_vs_gt_possible",
     "cancellation_llm_decision_no_gt"}
    \cup ConfusionCells \cup ToolAgreementCounters

\* Counter(): every key reads as 0
Counter == [c \in CounterNames |-> 0]

\* counter[name] += n
Add(counter, name, n) == [counter EXCEPT ![name] = @ + n]


(***************************************************************************)
(* State.                                                                  *)
(***************************************************************************)
VARIABLES
    policies,               \* POLICIES_CONFIG_TELEMETRY
    metrics,                \* metrics_by_config: configuration -> Counter
    pc,                     \* "main": between sessions; "loop": inside
                            \* process_session_with_fsm; "raised": an
                            \* exception left process_session_with_fsm and
                            \* main; "reported": print_final_metrics was
                            \* called; "exited": main returned without it
    rows,                   \* rows of the telemetry table processed so far
    model_prompt_config,
    i,                      \* events of the session the loop has taken
    session_fsm_depth,
    session_fsm_ok,
    current_session_already_marked_broken,
    previous_event_type,
    turn_active_cancel_query,
    turn_cancel_order_id,
    turn_order_details_for_gt,
    turn_gt_cancellable_status,
    turn_gt_evaluation_timestamp,
    turn_llm_perceived_eligibility_for_tool_call,
    turn_llm_made_explicit_cancellation_decision_this_turn,
    gt_order,               \* arguments and result of one call of
    gt_timestamp,           \* get_policy_ground_truth on its own
    gt_result,
    gt_rerun,               \* result of the same call in a later run
    live_result,            \* PolicyDecision.allowed of check_policies on the
                            \* order of the snapshot
    h_start,                \* history: the configuration's Counter when the
                            \* session began
    h_valid,                \* history: no event so far broke the transition
                            \* table
    h_validated,            \* history: events before the first violation
    h_first_type,           \* history: event_type of the session's first event
    h_last_type,            \* history: event_type of the latest event
    h_case,                 \* history: what the latest event was, in the
                            \* specification's terms
    h_scored_with_gt,       \* history: every decision made with a ground
                            \* truth was scored as the specification states
    h_scored_without_gt,    \* history: so was every decision made without
    h_turn,                 \* history of the turn in progress: implicit
                            \* credits it received, the trigger that gave
                            \* the last one, whether an AGENT_DECISION_INTENT
                            \* of it named order_cancellation, whether its
                            \* ground truth resolved, whether it holds a
                            \* validated AGENT_FINAL_RESPONSE
    h_turns,                \* history of the turns of the session: the turn
                            \* closed last, counts of turns and decisions,
                            \* and what held of every credit so far
    h_before,               \* history: metrics_by_config when the session began
    h_solo,                 \* history: the locals and the Counter the session
                            \* would have if it were processed alone, from an
                            \* empty metrics_by_config
    h_tool,                 \* history of the order_canceller executions: the
                            \* eligibility the turn's latest explicit
                            \* decision stated, and whether every execution
                            \* so far was counted as the specification states
    h_scope                 \* history of the turn in progress, as the
                            \* specification describes its state

turn_vars ==
    <<turn_active_cancel_query, turn_cancel_order_id, turn_order_details_for_gt,
      turn_gt_cancellable_status, turn_gt_evaluation_timestamp,
      turn_llm_perceived_eligibility_for_tool_call,
      turn_llm_made_explicit_cancellation_decision_this_turn>>

fsm_vars ==
    <<session_fsm_depth, session_fsm_ok, current_session_already_marked_broken,
      previous_event_type>>

gt_vars ==
    <<gt_order, gt_timestamp, gt_result, gt_rerun, live_result, wall_clock>>

h_vars ==
    <<h_start, h_valid, h_validated, h_first_type, h_last_type, h_case,
      h_scored_with_gt, h_scored_without_gt, h_turn, h_turns, h_tool,
      h_scope>>

solo_vars == <<h_before, h_solo>>

\* what data_loader.py and reporter.py work on
VARIABLES
    row,                    \* a row of the telemetry table
    event,                  \* parse_event_row(row), once it has returned
    table,                  \* experimenttelemetryevent, in the order of the
                            \* SELECT: rows with their session_id
    fetch_pc,               \* where fetch_and_group_telemetry stands
    pending,                \* rows of cursor.fetchall() not yet grouped
    sessions_data,          \* session_id -> events grouped so far
    store_error,            \* the call at which sqlite3.Error was raised
    report                  \* what print_final_metrics printed

\* what the chatbot service and the mock API work on
VARIABLES
    chat_pc,                \* where ChatbotService.process_message stands
    intermediate_steps,     \* result["intermediate_steps"] not yet logged:
                            \* the tool of each step
    logged,                 \* the events handed to log_event, in order
    stored,                 \* the events the telemetry API stored, in order
    orders,                 \* the order table: order_id -> Order
    cancel_result,          \* what attempt_cancel_order returned last
    utc_now                 \* datetime.utcnow(), as a number of ticks

fetch_vars == <<table, fetch_pc, pending, sessions_data, store_error>>

chat_vars == <<chat_pc, intermediate_steps, logged, stored>>

order_vars == <<orders, cancel_result, utc_now>>

io_vars == <<row, event, fetch_vars, report, chat_vars, order_vars>>

vars ==
    <<policies, metrics, pc, rows, model_prompt_config, i, fsm_vars, turn_vars,
      gt_vars, h_vars, solo_vars, io_vars>>

NoSnapshot == [kind |-> "none"]

\* the session has seen no USER_QUERY_RECEIVED yet: no turn is active
NoScope ==
    [active |-> FALSE, quiet |-> TRUE, fresh |-> TRUE, first_id |-> None,
     other_id_seen |-> FALSE, snapshot_matched |-> TRUE,
     later_turns_quiet |-> TRUE, boolean_eligibility |-> TRUE,
     latest_gt |-> None, by_latest_gt |-> TRUE]

\* a new session starts without a turn; what was observed so far is kept
ScopeAtSessionStart ==
    [NoScope EXCEPT !.quiet = h_scope.quiet, !.fresh = h_scope.fresh,
                    !.snapshot_matched = h_scope.snapshot_matched,
                    !.later_turns_quiet = h_scope.later_turns_quiet,
                    !.boolean_eligibility = h_scope.boolean_eligibility,
                    !.by_latest_gt = h_scope.by_latest_gt]

\* no turn is in progress: the session has seen no USER_QUERY_RECEIVED yet
NoTurn ==
    [open |-> FALSE, tn |-> 0, by |-> None, named |-> FALSE,
     resolved |-> FALSE, final |-> FALSE]

\* no turn was closed, resolved or scored, and no credit was given
NoTurns ==
    [closed |-> [kind |-> "none"], resolved_turns |-> 0,
     undecided_closed |-> 0, scored_decisions |-> 0,
     once |-> TRUE, unnamed_only |-> TRUE]

\* the locals of process_session_with_fsm and the session's Counter, as one
\* value the blocks of the loop body pass along
Locals ==
    [m |-> metrics[model_prompt_config],
     session_fsm_depth |-> session_fsm_depth,
     session_fsm_ok |-> session_fsm_ok,
     current_session_already_marked_broken |->
         current_session_already_marked_broken,
     previous_event_type |-> previous_event_type,
     turn_active_cancel_query |-> turn_active_cancel_query,
     turn_cancel_order_id |-> turn_cancel_order_id,
     turn_order_details_for_gt |-> turn_order_details_for_gt,
     turn_gt_cancellable_status |-> turn_gt_cancellable_status,
     turn_gt_evaluation_timestamp |-> turn_gt_evaluation_timestamp,
     turn_llm_perceived_eligibility_for_tool_call |->
         turn_llm_perceived_eligibility_for_tool_call,
     turn_llm_made_explicit_cancellation_decision_this_turn |->
         turn_llm_made_explicit_cancellation_decision_this_turn,
     raised |-> FALSE]

\* lines 25-45: the locals at the start of a session and the Counter of a
\* configuration metrics_by_config did not hold before
FreshLocals ==
    [m |-> Add(Counter, "total_sessions", 1),
     session_fsm_depth |-> 0,
     session_fsm_ok |-> TRUE,
     current_session_already_marked_broken |-> FALSE,
     previous_event_type |-> None,
     turn_active_cancel_query |-> FALSE,
     turn_cancel_order_id |-> None,
     turn_order_details_for_gt |-> NoSnapshot,
     turn_gt_cancellable_status |-> None,
     turn_gt_evaluation_timestamp |-> None,
     turn_llm_perceived_eligibility_for_tool_call |-> None,
     turn_llm_made_explicit_cancellation_decision_this_turn |-> FALSE,
     raised |-> FALSE]

(***************************************************************************)
(* The body of the loop over the events, block by block.                   *)
(***************************************************************************)
\* the implicit true negative is due: active query, ground truth False, no
\* explicit decision
ImplicitTnDue(s) ==
    /\ s.turn_active_cancel_query
    /\ s.turn_gt_cancellable_status = False
    /\ ~s.turn_llm_made_explicit_cancellation_decision_this_turn

\* variant: a USER_QUERY_RECEIVED event resets the turn and credits nothing
TurnResetWithoutCredit(s, e) ==
    IF e.event_type # "USER_QUERY_RECEIVED" THEN s
    ELSE IF e.user_query.kind = "none"
         THEN [s EXCEPT !.raised = TRUE]
         ELSE [s EXCEPT
                 !.turn_active_cancel_query =
                     Contains(Lower(e.user_query.text), CancelWord),
                 !.turn_cancel_order_id = None,
                 !.turn_order_details_for_gt = NoSnapshot,
                 !.turn_gt_cancellable_status = None,
                 !.turn_gt_evaluation_timestamp = None,
                 !.turn_llm_perceived_eligibility_for_tool_call = None,
                 !.turn_llm_made_explicit_cancellation_decision_this_turn =
                     FALSE]

\* variant: the tracked order id outlives the turn
TurnResetKeepsOrderId(s, e) ==
    [TurnResetWithoutCredit(s, e) EXCEPT
        !.turn_cancel_order_id = s.turn_cancel_order_id]

\* lines 60-78: a USER_QUERY_RECEIVED event credits the previous turn and
\* resets the turn; user_query = None raises at .lower(), after the credit
TurnReset(s, e) ==
    IF e.event_type # "USER_QUERY_RECEIVED" THEN s
    ELSE LET credited ==
                 IF ImplicitTnDue(s)
                 THEN [s EXCEPT !.m = Add(@, "tn_cancellation_implicit_avoidance", 1)]
                 ELSE s
         IN  IF e.user_query.kind = "none"
             THEN [credited EXCEPT !.raised = TRUE]
             ELSE [credited EXCEPT
                     !.turn_active_cancel_query =
                         Contains(Lower(e.user_query.text), CancelWord),
                     !.turn_cancel_order_id = None,
                     !.turn_order_details_for_gt = NoSnapshot,
                     !.turn_gt_cancellable_status = None,
                     !.turn_gt_evaluation_timestamp = None,
                     !.turn_llm_perceived_eligibility_for_tool_call = None,
                     !.turn_llm_made_explicit_cancellation_decision_this_turn =
                         FALSE]

\* variant: the first event is not checked
FsmValidationNoInitialCheck(s, e, index) ==
    IF index = 0 THEN s
    ELSE IF s.previous_event_type # None
    THEN IF \/ s.previous_event_type \notin DOMAIN VALID_TRANSITIONS
            \/ e.event_type \notin VALID_TRANSITIONS[s.previous_event_type]
         THEN [s EXCEPT !.session_fsm_ok = FALSE] ELSE s
    ELSE s

\* lines 96-106: the transition check; index is the position of the event
FsmValidation(s, e, index) ==
    IF index = 0
    THEN IF e.event_type # INITIAL_STATE_TYPE
         THEN [s EXCEPT !.session_fsm_ok = FALSE] ELSE s
    ELSE IF s.previous_event_type # None
    THEN IF \/ s.previous_event_type \notin DOMAIN VALID_TRANSITIONS
            \/ e.event_type \notin VALID_TRANSITIONS[s.previous_event_type]
         THEN [s EXCEPT !.session_fsm_ok = FALSE] ELSE s
    ELSE s

\* lines 108-119: the first violation counts the session as broken
MarkBroken(s) ==
    LET counted ==
            IF ~s.current_session_already_marked_broken
            THEN [s EXCEPT !.m = Add(@, "fsm_broken_sessions", 1),
                           !.current_session_already_marked_broken = TRUE]
            ELSE s
    IN  [counted EXCEPT
            !.m = Add(@, "fsm_depth_for_broken_sessions", s.session_fsm_depth)]

\* variant: every event that names an order replaces the tracked id
TrackOrderIdLatest(s, e) ==
    IF s.turn_active_cancel_query /\ e.order_id_identified # None
    THEN [s EXCEPT !.turn_cancel_order_id = e.order_id_identified]
    ELSE s

\* lines 127-130: the first order id seen in an active turn
TrackOrderId(s, e) ==
    IF /\ s.turn_active_cancel_query
       /\ s.turn_cancel_order_id = None
       /\ e.order_id_identified # None
    THEN [s EXCEPT !.turn_cancel_order_id = e.order_id_identified]
    ELSE s

\* tool_raw_resp.get("order_id")
ResponseOrderId(raw) == raw.order_id

\* lines 132-148: a matching order_tracker response sets the ground truth
\* variant: only the first matching execution of a turn sets the ground truth
OrderTrackerBlockKeepingFirst(s, e, policy) ==
    IF /\ e.event_type = "AGENT_TOOL_EXECUTED"
       /\ e.tool_name = "order_tracker"
       /\ s.turn_active_cancel_query
       /\ e.tool_raw_response.kind = "dict"
       /\ ResponseOrderId(e.tool_raw_response) = s.turn_cancel_order_id
       /\ s.turn_gt_cancellable_status = None
    THEN LET gt == get_policy_ground_truth(e.tool_raw_response, e.timestamp,
                                           policy)
         IN  IF gt = "TypeError"
             THEN [s EXCEPT !.turn_order_details_for_gt = e.tool_raw_response,
                            !.turn_gt_evaluation_timestamp = e.timestamp,
                            !.raised = TRUE]
             ELSE [s EXCEPT !.turn_order_details_for_gt = e.tool_raw_response,
                            !.turn_gt_evaluation_timestamp = e.timestamp,
                            !.turn_gt_cancellable_status = gt]
    ELSE s

OrderTrackerBlock(s, e, policy) ==
    IF /\ e.event_type = "AGENT_TOOL_EXECUTED"
       /\ e.tool_name = "order_tracker"
       /\ s.turn_active_cancel_query
       /\ e.tool_raw_response.kind = "dict"
       /\ ResponseOrderId(e.tool_raw_response) = s.turn_cancel_order_id
    THEN LET gt == get_policy_ground_truth(e.tool_raw_response, e.timestamp,
                                           policy)
         IN  IF Falsy(e.tool_raw_response) \/ Falsy(e.timestamp)
             THEN [s EXCEPT !.turn_order_details_for_gt = e.tool_raw_response,
                            !.turn_gt_evaluation_timestamp = e.timestamp]
             ELSE IF gt = "TypeError"
             THEN [s EXCEPT !.turn_order_details_for_gt = e.tool_raw_response,
                            !.turn_gt_evaluation_timestamp = e.timestamp,
                            !.raised = TRUE]
             ELSE [s EXCEPT !.turn_order_details_for_gt = e.tool_raw_response,
                            !.turn_gt_evaluation_timestamp = e.timestamp,
                            !.turn_gt_cancellable_status = gt]
    ELSE s

\* variant: the false-positive and false-negative cells change places
ConfusionCellSwapped(llm_decision_bool, gt) ==
    CASE llm_decision_bool = True /\ gt = True -> "tp_cancellation"
      [] llm_decision_bool = True /\ gt = False -> "fn_cancellation"
      [] llm_decision_bool = False /\ gt = False -> "tn_cancellation"
      [] llm_decision_bool = False /\ gt = True -> "fp_cancellation"
      [] OTHER -> None

\* variant: a wrongly denied cancellation has no cell
ConfusionCellWithoutFalseNegative(llm_decision_bool, gt) ==
    CASE llm_decision_bool = True /\ gt = True -> "tp_cancellation"
      [] llm_decision_bool = True /\ gt = False -> "fp_cancellation"
      [] llm_decision_bool = False /\ gt = False -> "tn_cancellation"
      [] OTHER -> None

\* lines 171-190: the cell of the confusion matrix, if any
ConfusionCell(llm_decision_bool, gt) ==
    CASE llm_decision_bool = True /\ gt = True -> "tp_cancellation"
      [] llm_decision_bool = True /\ gt = False -> "fp_cancellation"
      [] llm_decision_bool = False /\ gt = False -> "tn_cancellation"
      [] llm_decision_bool = False /\ gt = True -> "fn_cancellation"
      [] OTHER -> None

\* variant: the cell of a decision is incremented by 2
ScoreDecisionCountsTwice(m, llm_decision_bool, gt) ==
    IF gt # None
    THEN LET counted == Add(m, "cancellation_evaluations_vs_gt_possible", 1)
             cell == ConfusionCell(llm_decision_bool, gt)
         IN  IF cell = None THEN counted ELSE Add(counted, cell, 2)
    ELSE Add(m, "cancellation_llm_decision_no_gt", 1)

\* variant: a missing ground truth is scored as False
ScoreDecisionNoneAsFalse(m, llm_decision_bool, gt) ==
    LET counted == Add(m, "cancellation_evaluations_vs_gt_possible", 1)
        cell == ConfusionCell(llm_decision_bool, IF gt = None THEN False ELSE gt)
    IN  IF cell = None THEN counted ELSE Add(counted, cell, 1)

\* lines 174-193: score the decision against the ground truth
ScoreDecision(m, llm_decision_bool, gt) ==
    IF gt # None
    THEN LET counted == Add(m, "cancellation_evaluations_vs_gt_possible", 1)
             cell == ConfusionCell(llm_decision_bool, gt)
         IN  IF cell = None THEN counted ELSE Add(counted, cell, 1)
    ELSE Add(m, "cancellation_llm_decision_no_gt", 1)

\* lines 151-197: an explicit order_cancellation decision of the turn
DecisionBlock(s, e) ==
    IF /\ e.event_type = "AGENT_DECISION_INTENT"
       /\ s.turn_active_cancel_query
       /\ s.turn_cancel_order_id = e.order_id_identified
       /\ e.agent_generated_payload.kind = "dict"
       /\ e.agent_generated_payload.action_under_consideration
              = "order_cancellation"
    THEN LET llm_perceived_eligibility ==
                 e.agent_generated_payload.perceived_eligibility_for_action
             llm_decision_bool ==
                 IF llm_perceived_eligibility = None THEN False
                 ELSE llm_perceived_eligibility
             m1 == Add(s.m, "cancellation_decisions_made_by_llm", 1)
             m2 == IF llm_perceived_eligibility = None
                   THEN Add(m1, "llm_eligibility_not_stated", 1) ELSE m1
         IN  [s EXCEPT
                !.turn_llm_made_explicit_cancellation_decision_this_turn = TRUE,
                !.turn_llm_perceived_eligibility_for_tool_call =
                    llm_perceived_eligibility,
                !.m = ScoreDecision(m2, llm_decision_bool,
                                    s.turn_gt_cancellable_status)]
    ELSE s

\* variant: the final response credits without setting the flag
FinalResponseBlockLeavesFlag(s, e) ==
    IF e.event_type = "AGENT_FINAL_RESPONSE" /\ ImplicitTnDue(s)
    THEN [s EXCEPT !.m = Add(@, "tn_cancellation_implicit_avoidance", 1)]
    ELSE s

\* lines 199-205: the final response credits the implicit true negative
FinalResponseBlock(s, e) ==
    IF e.event_type = "AGENT_FINAL_RESPONSE" /\ ImplicitTnDue(s)
    THEN [s EXCEPT
            !.m = Add(@, "tn_cancellation_implicit_avoidance", 1),
            !.turn_llm_made_explicit_cancellation_decision_this_turn = TRUE]
    ELSE s

\* lines 210-220: the success of an order_canceller call
DerivedToolSuccess(e) ==
    IF e.tool_response_success # None THEN e.tool_response_success
    ELSE IF e.tool_raw_response.kind = "dict"
            /\ e.tool_raw_response.success # Missing
    THEN e.tool_raw_response.success
    ELSE None

\* variant: an eligibility that was not stated is counted as a stated no
CancellerBlockUnknownAsNo(s, e) ==
    IF e.event_type = "AGENT_TOOL_EXECUTED" /\ e.tool_name = "order_canceller"
    THEN LET derived_tool_success == DerivedToolSuccess(e)
             belief == s.turn_llm_perceived_eligibility_for_tool_call
         IN  IF derived_tool_success = True
             THEN LET m1 == Add(s.m, "order_canceller_api_approvals", 1)
                  IN  [s EXCEPT !.m =
                         IF belief = True
                         THEN Add(m1, "llm_predicts_cancel_api_agrees", 1)
                         ELSE Add(m1, "llm_predicts_no_cancel_api_agrees", 1)]
             ELSE IF derived_tool_success = False
             THEN LET m1 == Add(s.m, "order_canceller_api_denials", 1)
                  IN  [s EXCEPT !.m =
                         IF belief = True
                         THEN Add(m1, "llm_predicts_cancel_api_denies", 1)
                         ELSE Add(m1, "llm_predicts_no_cancel_api_denies_too", 1)]
             ELSE s
    ELSE s

\* lines 208-249: approvals, denials and agreement with the LLM's belief
CancellerBlock(s, e) ==
    IF e.event_type = "AGENT_TOOL_EXECUTED" /\ e.tool_name = "order_canceller"
    THEN LET derived_tool_success == DerivedToolSuccess(e)
             belief == s.turn_llm_perceived_eligibility_for_tool_call
         IN  IF derived_tool_success = True
             THEN LET m1 == Add(s.m, "order_canceller_api_approvals", 1)
                  IN  [s EXCEPT !.m =
                         IF belief = True
                         THEN Add(m1, "llm_predicts_cancel_api_agrees", 1)
                         ELSE IF belief = False
                         THEN Add(m1, "llm_predicts_no_cancel_api_agrees", 1)
                         ELSE m1]
             ELSE IF derived_tool_success = False
             THEN LET m1 == Add(s.m, "order_canceller_api_denials", 1)
                  IN  [s EXCEPT !.m =
                         IF belief = True
                         THEN Add(m1, "llm_predicts_cancel_api_denies", 1)
                         ELSE IF belief = False
                         THEN Add(m1, "llm_predicts_no_cancel_api_denies_too", 1)
                         ELSE m1]
             ELSE s
    ELSE s

\* lines 121-250: the part of the body a validated event goes through
ValidatedEvent(s, e, policy) ==
    LET s1 == [s EXCEPT !.session_fsm_depth = @ + 1]
        s2 == TrackOrderId(s1, e)
        s3 == OrderTrackerBlock(s2, e, policy)
    IN  IF s3.raised THEN s3
        ELSE LET s4 == DecisionBlock(s3, e)
                 s5 == FinalResponseBlock(s4, e)
                 s6 == CancellerBlock(s5, e)
             IN  [s6 EXCEPT !.previous_event_type = e.event_type]

\* variant: the events of a broken session are validated again
LoopBodyNoSkip(s, e, index, policy) ==
    LET s1 == TurnReset(s, e)
    IN  IF s1.raised THEN s1
        ELSE LET s2 == FsmValidation(s1, e, index)
             IN  IF ~s2.session_fsm_ok THEN MarkBroken(s2)
                 ELSE ValidatedEvent(s2, e, policy)

\* lines 50-250: one iteration of the loop
LoopBody(s, e, index, policy) ==
    LET s1 == TurnReset(s, e)
    IN  IF s1.raised THEN s1
        ELSE IF ~s1.session_fsm_ok THEN s1
        ELSE LET s2 == FsmValidation(s1, e, index)
             IN  IF ~s2.session_fsm_ok THEN MarkBroken(s2)
                 ELSE ValidatedEvent(s2, e, policy)


(***************************************************************************)
(* Inputs.                                                                 *)
(***************************************************************************)
\* the policies section of configs/mock_api_config.json; a key the file
\* leaves out is Missing
ConfiguredPolicies(window, extension, denylist) ==
    [kind |-> "dict", standard_window_days |-> window,
     premium_customer_extension_days |-> extension,
     status_denylist |-> denylist]

ConfiguredDenylist == {"fulfilled", "delivering", "delivered"}

\* the configuration the sessions are processed under
SessionPolicies ==
    ConfiguredPolicies(Given(10), Given(5), List(ConfiguredDenylist))

\* configurations, snapshots and timestamps get_policy_ground_truth is
\* evaluated on
GtPolicies ==
    { EmptyPolicies,
      ConfiguredPolicies(Absent, Absent, NoList),
      ConfiguredPolicies(Given(10), Given(5), List(ConfiguredDenylist)),
      ConfiguredPolicies(Given(10), Absent, List({"delivered"})),
      ConfiguredPolicies(Given(3), Given(2), List(ConfiguredDenylist)) }

GtOrderedOn ==
    { [kind |-> "missing"], [kind |-> "none"], [kind |-> "empty"],
      [kind |-> "text"], [kind |-> "nonstr"],
      DateText(2024, 2, 30), DateText(2024, 13, 1),
      DateText(2024, 1, 1), DateText(2023, 12, 25), DateText(2024, 2, 20) }

GtStatuses ==
    { None, "ordered", "cancelled", "fulfilled", "delivering", "delivered" }

GtCustomers ==
    { [kind |-> "missing"], [kind |-> "str"], StandardCustomer, PremiumCustomer,
      [kind |-> "dict", is_premium |-> Missing] }

GtOrders ==
    { NoSnapshot, [kind |-> "empty"] }
    \cup { OrderSnapshot("ORD1", od, st, cu) :
             od \in GtOrderedOn, st \in GtStatuses, cu \in GtCustomers }

GtDays ==
    { <<2024, 1, d>> : d \in {1, 4, 5, 6, 9, 10, 11, 12, 15, 16, 17} }
    \cup { <<2024, 2, 29>>, <<2024, 3, 1>>, <<2024, 3, 2>>, <<2024, 3, 6>>,
           <<2024, 3, 7>>, <<2023, 12, 31>>, <<2024, 2, 31>> }

GtTimestamps ==
    { [kind |-> "text"] }
    \cup { Timestamp(day[1], day[2], day[3], frac) :
             day \in GtDays, frac \in BOOLEAN }

(***************************************************************************)
(* Initial state and actions.                                              *)
(***************************************************************************)
InitBeforeSessions ==
    /\ pc = "main"
    /\ rows = 0
    /\ model_prompt_config = <<None, None>>
    /\ i = 0
    /\ session_fsm_depth = 0
    /\ session_fsm_ok = TRUE
    /\ current_session_already_marked_broken = FALSE
    /\ previous_event_type = None
    /\ turn_active_cancel_query = FALSE
    /\ turn_cancel_order_id = None
    /\ turn_order_details_for_gt = NoSnapshot
    /\ turn_gt_cancellable_status = None
    /\ turn_gt_evaluation_timestamp = None
    /\ turn_llm_perceived_eligibility_for_tool_call = None
    /\ turn_llm_made_explicit_cancellation_decision_this_turn = FALSE
    /\ h_start = Counter
    /\ h_valid = TRUE
    /\ h_validated = 0
    /\ h_first_type = None
    /\ h_last_type = None
    /\ h_case = "none"
    /\ h_scored_with_gt = TRUE
    /\ h_scored_without_gt = TRUE
    /\ h_turn = NoTurn
    /\ h_turns = NoTurns
    /\ h_tool = [belief |-> None, scored |-> TRUE, by_stored_success |-> TRUE]
    /\ h_scope = NoScope
    /\ h_before = [c \in Configs |-> Counter]
    /\ h_solo = [FreshLocals EXCEPT !.m = Counter]

\* main.py line 29: metrics_by_config = defaultdict(Counter)
InitSession ==
    /\ metrics = [c \in Configs |-> Counter]
    /\ InitBeforeSessions

\* fetch_and_group_telemetry before it is called
InitFetchIdle ==
    /\ table = <<>>
    /\ fetch_pc = "idle"
    /\ pending = <<>>
    /\ sessions_data = EmptyGrouping
    /\ store_error = "none"

\* no call of attempt_cancel_order was made
NoCancelResult ==
    [order_id |-> None, success |-> None, message |-> None,
     violated_rule |-> None]

\* the chatbot service and the mock API at rest
InitServiceIdle ==
    /\ chat_pc = "idle"
    /\ intermediate_steps = <<>>
    /\ logged = <<>>
    /\ stored = <<>>
    /\ orders = <<>>
    /\ cancel_result = NoCancelResult
    /\ utc_now = 0

\* the loader and the reporter at rest
InitIo ==
    /\ row = NoRow
    /\ event = NotParsed
    /\ InitFetchIdle
    /\ report = NotPrinted
    /\ InitServiceIdle

\* the day of a run when no event names one, and the day of a later run
FirstRunDay == [kind |-> "date", y |-> 2024, m |-> 1, d |-> 5]
LaterRunDay == [kind |-> "date", y |-> 2024, m |-> 6, d |-> 1]

\* main_telemetry_analysis_pipeline before its loop, metrics_by_config empty
Init ==
    /\ policies = SessionPolicies
    /\ InitSession
    /\ InitIo
    /\ gt_order = NoSnapshot
    /\ gt_timestamp = [kind |-> "text"]
    /\ gt_result = "not called"
    /\ gt_rerun = "not called"
    /\ live_result = "not called"
    /\ wall_clock = FirstRunDay

\* variant: the session is counted under every configuration
CountSessionInEveryConfig(metrics_aggregator, names) ==
    [config \in Configs |-> Add(metrics_aggregator[config], "total_sessions", 1)]

\* lines 25-31: the session is counted under the configuration of its
\* first event
CountSession(metrics_aggregator, names) ==
    [metrics_aggregator EXCEPT ![names] = Add(@, "total_sessions", 1)]

\* variant: the locals of the turn are left as the previous session left
\* them
BeginSessionKeepsTurn(names, max_rows) ==
    /\ pc = "main"
    /\ rows < max_rows
    /\ pc' = "loop"
    /\ model_prompt_config' = names
    /\ metrics' = CountSession(metrics, names)
    /\ i' = 0
    /\ session_fsm_depth' = 0
    /\ session_fsm_ok' = TRUE
    /\ current_session_already_marked_broken' = FALSE
    /\ previous_event_type' = None
    /\ UNCHANGED turn_vars
    /\ h_start' = metrics[names]
    /\ h_valid' = TRUE
    /\ h_validated' = 0
    /\ h_first_type' = None
    /\ h_last_type' = None
    /\ h_case' = "none"
    /\ h_turn' = NoTurn
    /\ h_turns' = [NoTurns EXCEPT !.once = h_turns.once,
                                  !.unnamed_only = h_turns.unnamed_only]
    /\ h_tool' = [h_tool EXCEPT !.belief = None]
    /\ h_scope' = ScopeAtSessionStart
    /\ UNCHANGED <<h_scored_with_gt, h_scored_without_gt>>
    /\ h_before' = metrics
    /\ h_solo' = FreshLocals
    /\ UNCHANGED <<policies, rows, gt_vars, io_vars>>

\* process_session_with_fsm, lines 25-45: the configuration is that of the
\* first event; the locals start afresh
BeginSession(names, max_rows) ==
    /\ pc = "main"
    /\ rows < max_rows
    /\ pc' = "loop"
    /\ model_prompt_config' = names
    /\ metrics' = CountSession(metrics, names)
    /\ i' = 0
    /\ session_fsm_depth' = 0
    /\ session_fsm_ok' = TRUE
    /\ current_session_already_marked_broken' = FALSE
    /\ previous_event_type' = None
    /\ turn_active_cancel_query' = FALSE
    /\ turn_cancel_order_id' = None
    /\ turn_order_details_for_gt' = NoSnapshot
    /\ turn_gt_cancellable_status' = None
    /\ turn_gt_evaluation_timestamp' = None
    /\ turn_llm_perceived_eligibility_for_tool_call' = None
    /\ turn_llm_made_explicit_cancellation_decision_this_turn' = FALSE
    /\ h_start' = metrics[names]
    /\ h_valid' = TRUE
    /\ h_validated' = 0
    /\ h_first_type' = None
    /\ h_last_type' = None
    /\ h_case' = "none"
    /\ h_turn' = NoTurn
    /\ h_turns' = [NoTurns EXCEPT !.once = h_turns.once,
                                  !.unnamed_only = h_turns.unnamed_only]
    /\ h_tool' = [h_tool EXCEPT !.belief = None]
    /\ h_scope' = ScopeAtSessionStart
    /\ UNCHANGED <<h_scored_with_gt, h_scored_without_gt>>
    /\ h_before' = metrics
    /\ h_solo' = FreshLocals
    /\ UNCHANGED <<policies, rows, gt_vars, io_vars>>

\* the transition table as the specification states it
StatedTransitions(t) ==
    CASE t = "USER_QUERY_RECEIVED" ->
             {"AGENT_FINAL_RESPONSE", "AGENT_DECISION_INTENT"}
      [] t = "AGENT_DECISION_INTENT" -> {"AGENT_TOOL_EXECUTED"}
      [] t = "AGENT_TOOL_EXECUTED" ->
             {"AGENT_DECISION_INTENT", "AGENT_FINAL_RESPONSE"}
      [] OTHER -> {}

\* the event at position index keeps the sequence valid after `before`
StatedStepValid(index, before, e) ==
    IF index = 0 THEN e.event_type = "USER_QUERY_RECEIVED"
    ELSE e.event_type \in StatedTransitions(before)

\* the cell the specification assigns to (LLM decision, ground truth), a
\* missing eligibility counting as no
StatedCell(eligibility, ground_truth) ==
    LET yes == (eligibility = True)
    IN  IF yes /\ ground_truth = True THEN "tp_cancellation"
        ELSE IF yes /\ ground_truth = False THEN "fp_cancellation"
        ELSE IF ~yes /\ ground_truth = False THEN "tn_cancellation"
        ELSE "fn_cancellation"

\* the event just processed is an explicit order_cancellation decision: a
\* validated AGENT_DECISION_INTENT of a cancellation-active turn whose payload
\* names order_cancellation for the order the turn tracks
StatedExplicitDecision(e) ==
    /\ pc' = "loop"
    /\ session_fsm_ok'
    /\ e.event_type = "AGENT_DECISION_INTENT"
    /\ turn_active_cancel_query
    /\ e.agent_generated_payload.kind = "dict"
    /\ e.agent_generated_payload.action_under_consideration = "order_cancellation"
    /\ e.order_id_identified = turn_cancel_order_id'

\* what the event just processed was
StatedCase(e) ==
    IF ~StatedExplicitDecision(e) THEN "other"
    ELSE IF turn_gt_cancellable_status = None
    THEN "decision without ground truth"
    ELSE IF e.agent_generated_payload.perceived_eligibility_for_action
                \in {True, False, None}
    THEN "decision with ground truth"
    ELSE "decision with ground truth, eligibility not a boolean"

\* the step changed the counters in `names` of the session's Counter by
\* `changes` (a name left out of `changes` did not change)
ChangedBy(names, changes) ==
    \A c \in names :
        metrics'[model_prompt_config][c] =
            metrics[model_prompt_config][c]
            + (IF c \in DOMAIN changes THEN changes[c] ELSE 0)

\* a decision made with a ground truth was scored as the specification
\* states: one cell, and the not-stated counter when eligibility is missing
StatedScoringWithGt(e) ==
    LET eligibility == e.agent_generated_payload.perceived_eligibility_for_action
    IN  StatedCase(e) = "decision with ground truth" =>
            /\ ChangedBy(ConfusionCells,
                   StatedCell(eligibility, turn_gt_cancellable_status) :> 1)
            /\ ChangedBy({"llm_eligibility_not_stated"},
                   "llm_eligibility_not_stated"
                       :> (IF eligibility = None THEN 1 ELSE 0))

\* a decision made without a ground truth was counted as such and in no cell
StatedScoringWithoutGt(e) ==
    StatedCase(e) = "decision without ground truth" =>
        /\ ChangedBy({"cancellation_llm_decision_no_gt"},
               "cancellation_llm_decision_no_gt" :> 1)
        /\ ChangedBy(ConfusionCells, <<>>)

\* implicit credits the step gave
Credited ==
    metrics'[model_prompt_config]["tn_cancellation_implicit_avoidance"]
        - metrics[model_prompt_config]["tn_cancellation_implicit_avoidance"]

\* the event is an AGENT_DECISION_INTENT whose payload names order_cancellation
NamesCancellation(e) ==
    /\ e.event_type = "AGENT_DECISION_INTENT"
    /\ e.agent_generated_payload.kind = "dict"
    /\ e.agent_generated_payload.action_under_consideration = "order_cancellation"

\* the turn in progress after the event: a USER_QUERY_RECEIVED opens a new
\* turn, any other event belongs to the turn in progress
TurnAfter(e) ==
    IF e.event_type = "USER_QUERY_RECEIVED"
    THEN [NoTurn EXCEPT !.open = TRUE]
    ELSE [h_turn EXCEPT
            !.tn = @ + Credited,
            !.by = IF Credited > 0 THEN e.event_type ELSE @,
            !.named = @ \/ NamesCancellation(e),
            !.resolved = @ \/ turn_gt_cancellable_status' \in {True, False},
            !.final = @ \/ /\ e.event_type = "AGENT_FINAL_RESPONSE"
                           /\ h_valid
                           /\ StatedStepValid(i, h_last_type, e)]

\* the history of the session's turns after the event; the credit a
\* USER_QUERY_RECEIVED gives goes to the turn it closes
TurnsAfter(e) ==
    IF e.event_type = "USER_QUERY_RECEIVED"
    THEN [h_turns EXCEPT
            !.closed =
                IF h_turn.open
                THEN [kind |-> "turn",
                      due |-> /\ turn_active_cancel_query
                              /\ turn_gt_cancellable_status = False
                              /\ ~h_turn.named,
                      tn |-> h_turn.tn + Credited,
                      by |-> IF Credited > 0 THEN e.event_type ELSE h_turn.by]
                ELSE [kind |-> "none"],
            !.undecided_closed =
                @ + (IF h_turn.resolved /\ ~h_turn.named THEN 1 ELSE 0),
            !.once = @ /\ h_turn.tn + Credited <= 1,
            !.unnamed_only = @ /\ (Credited > 0 => ~h_turn.named)]
    ELSE [h_turns EXCEPT
            !.resolved_turns =
                @ + (IF /\ ~h_turn.resolved
                        /\ turn_gt_cancellable_status' \in {True, False}
                     THEN 1 ELSE 0),
            !.scored_decisions =
                @ + (IF StatedCase(e) \in
                          {"decision with ground truth",
                           "decision with ground truth, eligibility not a boolean"}
                     THEN 1 ELSE 0),
            !.once = @ /\ h_turn.tn + Credited <= 1,
            !.unnamed_only = @ /\ (Credited > 0 => ~h_turn.named)]

\* the agreement bucket of (stated eligibility, success of the call)
StatedBucket(belief, success) ==
    IF belief = True
    THEN (IF success = True THEN "llm_predicts_cancel_api_agrees"
          ELSE "llm_predicts_cancel_api_denies")
    ELSE (IF success = True THEN "llm_predicts_no_cancel_api_agrees"
          ELSE "llm_predicts_no_cancel_api_denies_too")

\* a validated order_canceller execution whose derived success is true or
\* false was counted as the specification states: the approval or denial
\* total, and the bucket of the turn's latest stated eligibility when that is
\* true or false
StatedToolAgreement(e) ==
    LET success == DerivedToolSuccess(e)
        belief == h_tool.belief
        total == IF success = True THEN "order_canceller_api_approvals"
                 ELSE "order_canceller_api_denials"
    IN  ( /\ pc' = "loop"
          /\ session_fsm_ok'
          /\ e.event_type = "AGENT_TOOL_EXECUTED"
          /\ e.tool_name = "order_canceller"
          /\ success \in {True, False} ) =>
            ChangedBy(ToolAgreementCounters,
                IF belief \in {True, False}
                THEN (total :> 1) @@ (StatedBucket(belief, success) :> 1)
                ELSE (total :> 1))

\* the success the table holds for the execution: tool_response_success when
\* it is not NULL, otherwise the success key of the decoded response
StoredSuccess(e) ==
    LET direct == CASE e.tool_response_success = SqliteBoolean(True) -> True
                    [] e.tool_response_success = SqliteBoolean(False) -> False
                    [] OTHER -> e.tool_response_success
    IN  IF direct # None THEN direct
        ELSE IF e.tool_raw_response.kind = "dict"
                /\ e.tool_raw_response.success # Missing
        THEN e.tool_raw_response.success
        ELSE None

\* a validated order_canceller execution was counted by the success the
\* table holds for it: an approval for true, a denial for false, and no
\* approval, denial or agreement counter for anything else
CountedByStoredSuccess(e) ==
    LET success == StoredSuccess(e)
    IN  ( /\ pc' = "loop"
          /\ session_fsm_ok'
          /\ e.event_type = "AGENT_TOOL_EXECUTED"
          /\ e.tool_name = "order_canceller" ) =>
            CASE success = True ->
                   ChangedBy({"order_canceller_api_approvals",
                              "order_canceller_api_denials"},
                             "order_canceller_api_approvals" :> 1)
              [] success = False ->
                   ChangedBy({"order_canceller_api_approvals",
                              "order_canceller_api_denials"},
                             "order_canceller_api_denials" :> 1)
              [] OTHER -> ChangedBy(ToolAgreementCounters, <<>>)

\* the history of the order_canceller executions after the event: a
\* USER_QUERY_RECEIVED forgets the eligibility, an explicit decision states it
ToolAfter(e) ==
    [belief |->
         IF e.event_type = "USER_QUERY_RECEIVED" THEN None
         ELSE IF StatedExplicitDecision(e)
         THEN e.agent_generated_payload.perceived_eligibility_for_action
         ELSE h_tool.belief,
     scored |-> h_tool.scored /\ StatedToolAgreement(e),
     by_stored_success |->
         h_tool.by_stored_success /\ CountedByStoredSuccess(e)]

\* the upper-case form of a letter of the word
UpperChar(c) ==
    CASE c = "c" -> "C" [] c = "a" -> "A" [] c = "n" -> "N"
      [] c = "e" -> "E" [] c = "l" -> "L" [] OTHER -> c

\* the query holds the word cancel, in whatever case its letters are
MentionsCancel(query) ==
    /\ query.kind = "str"
    /\ \E k \in 1..(Len(query.text) - 5) :
           \A j \in 1..6 :
               query.text[k + j - 1] \in {CancelWord[j], UpperChar(CancelWord[j])}

\* the counters of the adherence scoring
AdherenceCounters ==
    ConfusionCells
    \cup {"cancellation_decisions_made_by_llm", "cancellation_llm_decision_no_gt",
          "tn_cancellation_implicit_avoidance"}

\* the history of the turn after the event.  A USER_QUERY_RECEIVED that is
\* read to its end opens a turn, active when its query mentions cancel; the
\* event is processed under the turn it found, so the credit given on a
\* USER_QUERY_RECEIVED belongs to the turn it closes.
ScopeAfter(e) ==
    LET opens == e.event_type = "USER_QUERY_RECEIVED" /\ pc' = "loop"
        read == e.event_type = "USER_QUERY_RECEIVED" => opens
        active == IF opens THEN MentionsCancel(e.user_query)
                  ELSE h_scope.active
        validated == h_valid /\ StatedStepValid(i, h_last_type, e)
        tracked == IF opens THEN None ELSE h_scope.first_id
        names_order == /\ read /\ validated /\ active
                       /\ e.order_id_identified # None
        first_id == IF names_order /\ tracked = None
                    THEN e.order_id_identified ELSE tracked
        sets_snapshot ==
            \/ /\ turn_order_details_for_gt' # NoSnapshot
               /\ turn_order_details_for_gt' # turn_order_details_for_gt
            \/ /\ turn_gt_cancellable_status' # None
               /\ turn_gt_cancellable_status' # turn_gt_cancellable_status
        later_turn ==
            \/ h_turns.closed.kind = "turn"
            \/ e.event_type = "USER_QUERY_RECEIVED" /\ h_turn.open
        matching_tracker ==
            /\ e.event_type = "AGENT_TOOL_EXECUTED"
            /\ e.tool_name = "order_tracker"
            /\ validated
            /\ active
            /\ e.tool_raw_response.kind = "dict"
            /\ e.tool_raw_response.order_id = first_id
        eligibility ==
            e.agent_generated_payload.perceived_eligibility_for_action
        scoring_counters ==
            ConfusionCells \cup {"cancellation_evaluations_vs_gt_possible",
                                 "cancellation_llm_decision_no_gt"}
    IN  [active |-> active,
         latest_gt |->
             IF opens THEN None
             ELSE IF matching_tracker
             THEN get_policy_ground_truth(e.tool_raw_response, e.timestamp,
                                          policies)
             ELSE h_scope.latest_gt,
         by_latest_gt |->
             /\ h_scope.by_latest_gt
             /\ (StatedExplicitDecision(e)
                    /\ eligibility \in {True, False, None}) =>
                    IF h_scope.latest_gt = None
                    THEN ChangedBy(scoring_counters,
                             "cancellation_llm_decision_no_gt" :> 1)
                    ELSE ChangedBy(scoring_counters,
                             ("cancellation_evaluations_vs_gt_possible" :> 1)
                             @@ (StatedCell(eligibility, h_scope.latest_gt)
                                     :> 1)),
         first_id |-> first_id,
         boolean_eligibility |->
             /\ h_scope.boolean_eligibility
             /\ StatedCase(e) #
                    "decision with ground truth, eligibility not a boolean",
         later_turns_quiet |->
             /\ h_scope.later_turns_quiet
             /\ later_turn =>
                    ChangedBy(ConfusionCells \cup ToolAgreementCounters, <<>>),
         snapshot_matched |->
             /\ h_scope.snapshot_matched
             /\ sets_snapshot =>
                    /\ e.event_type = "AGENT_TOOL_EXECUTED"
                    /\ e.tool_name = "order_tracker"
                    /\ validated
                    /\ active
                    /\ e.tool_raw_response.kind = "dict"
                    /\ e.tool_raw_response.order_id # None
                    /\ e.tool_raw_response.order_id = first_id
                    /\ turn_order_details_for_gt' = e.tool_raw_response
                    /\ turn_gt_evaluation_timestamp' = e.timestamp,
         other_id_seen |->
             /\ ~opens
             /\ \/ h_scope.other_id_seen
                \/ /\ names_order
                   /\ tracked \notin {None, e.order_id_identified},
         quiet |->
             /\ h_scope.quiet
             /\ \/ h_scope.active
                \/ \A n \in AdherenceCounters :
                       metrics'[model_prompt_config][n]
                           = metrics[model_prompt_config][n],
         fresh |->
             /\ h_scope.fresh
             /\ opens =>
                    /\ turn_cancel_order_id' \in {None, e.order_id_identified}
                    /\ turn_order_details_for_gt' = NoSnapshot
                    /\ turn_gt_cancellable_status' = None
                    /\ turn_gt_evaluation_timestamp' = None
                    /\ turn_llm_perceived_eligibility_for_tool_call' = None
                    /\ ~turn_llm_made_explicit_cancellation_decision_this_turn']

\* one iteration of the loop, lines 50-250, on the next event of the list
ProcessEvent(e, max_rows) ==
    /\ pc = "loop"
    /\ rows < max_rows
    /\ i = 0 => <<e.agent_model_name, e.system_prompt_name>> = model_prompt_config
    /\ LET s == LoopBody(Locals, e, i, policies)
       IN  /\ pc' = IF s.raised THEN "raised" ELSE "loop"
           /\ metrics' = [metrics EXCEPT ![model_prompt_config] = s.m]
           /\ session_fsm_depth' = s.session_fsm_depth
           /\ session_fsm_ok' = s.session_fsm_ok
           /\ current_session_already_marked_broken' =
                  s.current_session_already_marked_broken
           /\ previous_event_type' = s.previous_event_type
           /\ turn_active_cancel_query' = s.turn_active_cancel_query
           /\ turn_cancel_order_id' = s.turn_cancel_order_id
           /\ turn_order_details_for_gt' = s.turn_order_details_for_gt
           /\ turn_gt_cancellable_status' = s.turn_gt_cancellable_status
           /\ turn_gt_evaluation_timestamp' = s.turn_gt_evaluation_timestamp
           /\ turn_llm_perceived_eligibility_for_tool_call' =
                  s.turn_llm_perceived_eligibility_for_tool_call
           /\ turn_llm_made_explicit_cancellation_decision_this_turn' =
                  s.turn_llm_made_explicit_cancellation_decision_this_turn
    /\ i' = i + 1
    /\ rows' = rows + 1
    /\ h_valid' = (h_valid /\ StatedStepValid(i, h_last_type, e))
    /\ h_validated' =
           IF h_valid /\ StatedStepValid(i, h_last_type, e)
           THEN h_validated + 1 ELSE h_validated
    /\ h_first_type' = IF i = 0 THEN e.event_type ELSE h_first_type
    /\ h_last_type' = e.event_type
    /\ h_case' = StatedCase(e)
    /\ h_scored_with_gt' = (h_scored_with_gt /\ StatedScoringWithGt(e))
    /\ h_scored_without_gt' = (h_scored_without_gt /\ StatedScoringWithoutGt(e))
    /\ h_turn' = TurnAfter(e)
    /\ h_turns' = TurnsAfter(e)
    /\ h_tool' = ToolAfter(e)
    /\ h_scope' = ScopeAfter(e)
    /\ h_solo' = LoopBody(h_solo, e, i, policies)
    /\ h_before' = h_before
    /\ UNCHANGED <<policies, model_prompt_config, h_start, gt_vars, io_vars>>

\* variant: a valid session is complete whatever its last event is
SessionEpilogueAnyLastEvent(m, ok, depth, last_type) ==
    IF ok
    THEN Add(Add(m, "total_fsm_depth_completed", depth),
             "fsm_completed_sessions", 1)
    ELSE m

\* variant: a session that ends with a final response is complete, broken
\* or not
SessionEpilogueOfBrokenToo(m, ok, depth, last_type) ==
    LET m1 == IF ok THEN Add(m, "total_fsm_depth_completed", depth) ELSE m
    IN  IF last_type = "AGENT_FINAL_RESPONSE"
        THEN Add(m1, "fsm_completed_sessions", 1) ELSE m1

\* lines 275-282: the list is exhausted; completed depth and completion
SessionEpilogue(m, ok, depth, last_type) ==
    IF ok
    THEN LET m1 == Add(m, "total_fsm_depth_completed", depth)
         IN  IF last_type = "AGENT_FINAL_RESPONSE"
             THEN Add(m1, "fsm_completed_sessions", 1) ELSE m1
    ELSE m

EndSession ==
    /\ pc = "loop"
    /\ i >= 1
    /\ pc' = "main"
    /\ metrics' = [metrics EXCEPT ![model_prompt_config] =
                      SessionEpilogue(@, session_fsm_ok, session_fsm_depth,
                                      previous_event_type)]
    /\ h_solo' = [h_solo EXCEPT !.m =
                      SessionEpilogue(@, h_solo.session_fsm_ok,
                                      h_solo.session_fsm_depth,
                                      h_solo.previous_event_type)]
    /\ UNCHANGED <<policies, rows, model_prompt_config, i, fsm_vars,
                   turn_vars, gt_vars, h_vars, h_before, io_vars>>

\* main.py lines 18-21: fetch_and_group_telemetry returned no session (the
\* table is empty, or sqlite raised and data_loader.py lines 53-55 caught
\* it); main returns before print_final_metrics
ExitNoData ==
    /\ pc = "main"
    /\ model_prompt_config = <<None, None>>
    /\ pc' = "exited"
    /\ UNCHANGED <<policies, metrics, rows, model_prompt_config, i, fsm_vars,
                   turn_vars, gt_vars, h_vars,
                   solo_vars, io_vars>>

\* main.py line 34: the loop over the sessions is over and
\* print_final_metrics is called on metrics_by_config
Report ==
    /\ pc = "main"
    /\ model_prompt_config # <<None, None>>
    /\ pc' = "reported"
    /\ report' = print_final_metrics(
                     metrics, {c \in Configs : metrics[c]["total_sessions"] > 0})
    /\ UNCHANGED <<policies, metrics, rows, model_prompt_config, i, fsm_vars,
                   turn_vars, gt_vars, h_vars,
                   solo_vars, row, event, fetch_vars, chat_vars, order_vars>>

\* main_telemetry_analysis_pipeline, lines 16-34: session after session, then
\* the report; a session main hands over has at least one row
Next ==
    \/ \E names \in Configs : BeginSession(names, MaxRows)
    \/ \E e \in Events : ProcessEvent(e, MaxRows)
    \/ EndSession
    \/ ExitNoData
    \/ Report

Spec == Init /\ [][Next]_vars

\* the same pipeline on longer tables whose rows carry nothing but an event
\* type, a configuration and a user query
NextFsm ==
    \/ BeginSession(FirstConfig, MaxFsmRows)
    \/ \E e \in FsmEvents : ProcessEvent(e, MaxFsmRows)
    \/ EndSession

SpecFsm == Init /\ [][NextFsm]_vars

\* the same pipeline on tables whose rows are those of a cancellation turn
NextTurn ==
    \/ BeginSession(FirstConfig, MaxTurnRows)
    \/ \E e \in TurnEvents : ProcessEvent(e, MaxTurnRows)
    \/ EndSession

SpecTurn == Init /\ [][NextTurn]_vars

\* the same pipeline on tables whose rows are those of TrackerTurnEvents
NextTracker ==
    \/ BeginSession(FirstConfig, MaxTurnRows)
    \/ \E e \in TrackerTurnEvents : ProcessEvent(e, MaxTurnRows)
    \/ EndSession

SpecTracker == Init /\ [][NextTracker]_vars

\* the same pipeline on tables whose rows are those of CancellerTurnEvents
NextCanceller ==
    \/ BeginSession(FirstConfig, MaxTurnRows)
    \/ \E e \in CancellerTurnEvents : ProcessEvent(e, MaxTurnRows)
    \/ EndSession

SpecCanceller == Init /\ [][NextCanceller]_vars

\* the same pipeline on tables whose rows are those of RetrackEvents
NextRetrack ==
    \/ BeginSession(FirstConfig, MaxTurnRows)
    \/ \E e \in RetrackEvents : ProcessEvent(e, MaxTurnRows)
    \/ EndSession

SpecRetrack == Init /\ [][NextRetrack]_vars

\* the same pipeline when configs/mock_api_config.json is missing, cannot be
\* decoded or holds no policies: POLICIES_CONFIG_TELEMETRY stays {}
InitNoPolicy ==
    /\ policies = EmptyPolicies
    /\ InitSession
    /\ InitIo
    /\ gt_order = NoSnapshot
    /\ gt_timestamp = [kind |-> "text"]
    /\ gt_result = "not called"
    /\ gt_rerun = "not called"
    /\ live_result = "not called"
    /\ wall_clock = FirstRunDay

NextNoPolicy ==
    \/ BeginSession(FirstConfig, MaxTurnRows)
    \/ \E e \in NoPolicyEvents : ProcessEvent(e, MaxTurnRows)
    \/ EndSession

SpecNoPolicy == InitNoPolicy /\ [][NextNoPolicy]_vars

(***************************************************************************)
(* parse_event_row on its own: one call on a row drawn from TableRows.     *)
(***************************************************************************)
InitRow ==
    /\ policies = SessionPolicies
    /\ InitSession
    /\ gt_order = NoSnapshot
    /\ gt_timestamp = [kind |-> "text"]
    /\ gt_result = "not called"
    /\ gt_rerun = "not called"
    /\ live_result = "not called"
    /\ wall_clock = FirstRunDay
    /\ row \in TableRows
    /\ event = NotParsed
    /\ InitFetchIdle
    /\ report = NotPrinted
    /\ InitServiceIdle

ParseEventRow ==
    /\ row.kind = "row"
    /\ event = NotParsed
    /\ event' = parse_event_row(row)
    /\ UNCHANGED <<policies, metrics, pc, rows, model_prompt_config, i,
                   fsm_vars, turn_vars, gt_vars, h_vars, solo_vars, row,
                   fetch_vars, report, chat_vars, order_vars>>

NextRow == ParseEventRow

SpecRow == InitRow /\ [][NextRow]_vars

(***************************************************************************)
(* print_final_metrics on its own: called on a metrics_by_config whose     *)
(* first configuration holds any combination of ReportCounts in the        *)
(* counters that reach a divisor, and whose second holds a fresh Counter.  *)
(***************************************************************************)
InitReport ==
    /\ policies = SessionPolicies
    /\ InitBeforeSessions
    /\ gt_order = NoSnapshot
    /\ gt_timestamp = [kind |-> "text"]
    /\ gt_result = "not called"
    /\ gt_rerun = "not called"
    /\ live_result = "not called"
    /\ wall_clock = FirstRunDay
    /\ row = NoRow
    /\ event = NotParsed
    /\ InitFetchIdle
    /\ report = NotPrinted
    /\ InitServiceIdle
    /\ \E given \in [DivisorCounters -> ReportCounts] :
           metrics = [c \in Configs |->
                         IF c = FirstConfig
                         THEN [n \in CounterNames |->
                                  IF n \in DivisorCounters THEN given[n]
                                  ELSE 0]
                         ELSE Counter]

PrintFinalMetrics ==
    /\ report = NotPrinted
    /\ \E keys \in SUBSET Configs :
           report' = print_final_metrics(metrics, keys)
    /\ UNCHANGED <<policies, metrics, pc, rows, model_prompt_config, i,
                   fsm_vars, turn_vars, gt_vars, h_vars, solo_vars, row,
                   event, fetch_vars, chat_vars, order_vars>>

NextReport == PrintFinalMetrics

SpecReport == InitReport /\ [][NextReport]_vars

(***************************************************************************)
(* fetch_and_group_telemetry on its own: one call on a table of at most    *)
(* MaxTableRows rows; the store may raise sqlite3.Error at any call made   *)
(* to it.                                                                  *)
(***************************************************************************)
InitFetch ==
    /\ policies = SessionPolicies
    /\ InitSession
    /\ gt_order = NoSnapshot
    /\ gt_timestamp = [kind |-> "text"]
    /\ gt_result = "not called"
    /\ gt_rerun = "not called"
    /\ live_result = "not called"
    /\ wall_clock = FirstRunDay
    /\ row = NoRow
    /\ event = NotParsed
    /\ report = NotPrinted
    /\ InitServiceIdle
    /\ table \in Tables
    /\ fetch_pc = "connect"
    /\ pending = <<>>
    /\ sessions_data = EmptyGrouping
    /\ store_error = "none"

\* everything but the variables of fetch_and_group_telemetry
not_fetch_vars ==
    <<policies, metrics, pc, rows, model_prompt_config, i, fsm_vars, turn_vars,
      gt_vars, h_vars, solo_vars, row, event, report, chat_vars, order_vars>>

\* lines 40-42: sqlite3.connect, conn.cursor
Connect ==
    /\ fetch_pc = "connect"
    /\ fetch_pc' = "execute"
    /\ UNCHANGED <<table, pending, sessions_data, store_error, not_fetch_vars>>

\* lines 44-48: cursor.execute
Execute ==
    /\ fetch_pc = "execute"
    /\ fetch_pc' = "fetchall"
    /\ UNCHANGED <<table, pending, sessions_data, store_error, not_fetch_vars>>

\* line 50: cursor.fetchall() returns every row of the SELECT
FetchAll ==
    /\ fetch_pc = "fetchall"
    /\ fetch_pc' = "loop"
    /\ pending' = table
    /\ UNCHANGED <<table, sessions_data, store_error, not_fetch_vars>>

\* lines 50-52: the next row is parsed and appended to its session
GroupRow ==
    /\ fetch_pc = "loop"
    /\ pending # <<>>
    /\ LET entry == Head(pending)
       IN  sessions_data' =
               [sessions_data EXCEPT ![entry.session_id] =
                    Append(@, parse_event_row(entry.row))]
    /\ pending' = Tail(pending)
    /\ UNCHANGED <<table, fetch_pc, store_error, not_fetch_vars>>

\* lines 56-61: the loop is over; finally closes, sessions_data is returned
ReturnGrouping ==
    /\ fetch_pc = "loop"
    /\ pending = <<>>
    /\ fetch_pc' = "returned"
    /\ UNCHANGED <<table, pending, sessions_data, store_error, not_fetch_vars>>

\* lines 53-61: a call to the store raises sqlite3.Error; the except clause
\* prints, finally closes, and sessions_data is returned as it stands
StoreRaises ==
    /\ fetch_pc \in StoreCalls
    /\ store_error = "none"
    /\ store_error' = fetch_pc
    /\ fetch_pc' = "returned"
    /\ UNCHANGED <<table, pending, sessions_data, not_fetch_vars>>

NextFetch ==
    \/ Connect
    \/ Execute
    \/ FetchAll
    \/ GroupRow
    \/ ReturnGrouping
    \/ StoreRaises

SpecFetch == InitFetch /\ [][NextFetch]_vars

(***************************************************************************)
(* get_policy_ground_truth on its own: one call on arguments drawn from    *)
(* the sets above.                                                         *)
(***************************************************************************)
InitGt ==
    /\ policies \in GtPolicies
    /\ InitSession
    /\ InitIo
    /\ gt_order \in GtOrders
    /\ gt_timestamp \in GtTimestamps
    /\ gt_result = "not called"
    /\ gt_rerun = "not called"
    /\ live_result = "not called"
    /\ wall_clock =
           LET day == DatetimeFromIsoformatDate(SplitAtDot(gt_timestamp))
           IN  IF day.kind = "date" THEN day ELSE FirstRunDay

EvaluateGroundTruth ==
    /\ gt_result = "not called"
    /\ gt_result' = get_policy_ground_truth(gt_order, gt_timestamp, policies)
    /\ UNCHANGED <<policies, metrics, pc, rows, model_prompt_config, i,
                   fsm_vars, turn_vars, gt_order, gt_timestamp, gt_rerun,
                   live_result, wall_clock, h_vars,
                   solo_vars, io_vars>>

\* the snapshot is an Order as the API serialises it
IsOrderRead(order_details) ==
    /\ order_details.kind = "dict"
    /\ DateFromIsoformat(order_details.ordered_on).kind = "date"
    /\ order_details.status \in OrderStatus
    /\ order_details.customer \in {StandardCustomer, PremiumCustomer}

\* the live check on the order of the snapshot, on the day of the event
CheckPolicies ==
    /\ gt_result # "not called"
    /\ live_result = "not called"
    /\ IsOrderRead(gt_order)
    /\ DatetimeFromIsoformatDate(SplitAtDot(gt_timestamp)) = wall_clock
    /\ live_result' =
           check_policies(Order(gt_order), "cancel_order", wall_clock, policies)
    /\ UNCHANGED <<policies, metrics, pc, rows, model_prompt_config, i,
                   fsm_vars, turn_vars, gt_order, gt_timestamp, gt_result,
                   gt_rerun, wall_clock, h_vars,
                   solo_vars, io_vars>>

\* time passes between two runs of the pipeline
ClockAdvances ==
    /\ gt_result # "not called"
    /\ gt_rerun = "not called"
    /\ wall_clock # LaterRunDay
    /\ wall_clock' = LaterRunDay
    /\ UNCHANGED <<policies, metrics, pc, rows, model_prompt_config, i,
                   fsm_vars, turn_vars, gt_order, gt_timestamp, gt_result,
                   gt_rerun, live_result, h_vars,
                   solo_vars, io_vars>>

\* the later run evaluates the same snapshot, timestamp and configuration
EvaluateAgain ==
    /\ gt_rerun = "not called"
    /\ wall_clock = LaterRunDay
    /\ gt_rerun' = get_policy_ground_truth(gt_order, gt_timestamp, policies)
    /\ UNCHANGED <<policies, metrics, pc, rows, model_prompt_config, i,
                   fsm_vars, turn_vars, gt_order, gt_timestamp, gt_result,
                   live_result, wall_clock, h_vars,
                   solo_vars, io_vars>>

NextGt ==
    \/ EvaluateGroundTruth
    \/ CheckPolicies
    \/ ClockAdvances
    \/ EvaluateAgain

SpecGt == InitGt /\ [][NextGt]_vars

(***************************************************************************)
(* Properties of FSM validation and of the session counters.               *)
(***************************************************************************)
\* a session has been started
InSession == model_prompt_config \in Configs

\* what the session being processed has added to a counter so far
Delta(name) == metrics[model_prompt_config][name] - h_start[name]

\* C1: a session is FSM-valid exactly when its first event is
\* USER_QUERY_RECEIVED and every later event's type is in the allowed
\* transitions of the type before it; any other pair, AGENT_ERROR included,
\* marks the session broken.
FsmValidExactlyWhenTransitionsAllowed ==
    (InSession /\ pc # "raised") =>
        /\ session_fsm_ok <=> h_valid
        /\ current_session_already_marked_broken <=> ~h_valid

\* a session broken by an AGENT_ERROR that follows two validated events
BrokenByAgentError ==
    /\ pc = "loop"
    /\ ~session_fsm_ok
    /\ h_last_type = "AGENT_ERROR"
    /\ h_validated >= 2
    /\ i = h_validated + 1

\* C2: whatever follows the first FSM violation, the session adds 1 to
\* fsm_broken_sessions and adds the number of events validated before the
\* violating event to fsm_depth_for_broken_sessions, once.
BrokenSessionCountedOnce ==
    InSession =>
        IF session_fsm_ok
        THEN /\ Delta("fsm_broken_sessions") = 0
             /\ Delta("fsm_depth_for_broken_sessions") = 0
        ELSE /\ Delta("fsm_broken_sessions") = 1
             /\ Delta("fsm_depth_for_broken_sessions") = h_validated

\* two validated events, the violating one, and two more after it
EventsAfterTheViolation ==
    /\ ~session_fsm_ok
    /\ h_validated >= 2
    /\ i >= h_validated + 3
    /\ Delta("fsm_depth_for_broken_sessions") = h_validated

\* C3: a non-empty session whose first event is not USER_QUERY_RECEIVED
\* adds 1 to fsm_broken_sessions, 0 to fsm_depth_for_broken_sessions, and
\* nothing to total_fsm_depth_completed and fsm_completed_sessions.
FirstEventNotUserQueryIsBrokenAtDepthZero ==
    (InSession /\ i >= 1 /\ h_first_type # "USER_QUERY_RECEIVED") =>
        /\ Delta("fsm_broken_sessions") = 1
        /\ Delta("fsm_depth_for_broken_sessions") = 0
        /\ Delta("total_fsm_depth_completed") = 0
        /\ Delta("fsm_completed_sessions") = 0

\* a finished session that starts, and ends, with AGENT_FINAL_RESPONSE
FinishedSessionStartingWithFinalResponse ==
    /\ pc = "main"
    /\ i >= 2
    /\ h_first_type = "AGENT_FINAL_RESPONSE"
    /\ h_last_type = "AGENT_FINAL_RESPONSE"
    /\ Delta("fsm_broken_sessions") = 1

NoAdherenceAccountingAfterBreak ==
    [][(pc = "loop" /\ current_session_already_marked_broken /\ pc' = "loop")
          => \A c \in AdherenceCounters \cup ToolAgreementCounters :
                 metrics'[model_prompt_config][c]
                     = metrics[model_prompt_config][c]]_vars

(***************************************************************************)
(* Properties of get_policy_ground_truth.                                  *)
(***************************************************************************)
Called == gt_result # "not called"

OrderedOnParses(order) ==
    /\ order.ordered_on.kind = "ymd"
    /\ IsCalendarDay(order.ordered_on.y, order.ordered_on.m, order.ordered_on.d)

TimestampParses(ts) == ts.kind = "iso" /\ IsCalendarDay(ts.y, ts.m, ts.d)

\* a policy configuration is loaded, with a window of 10 days and an
\* extension of 5 for premium customers
WindowsAreTenAndFive ==
    /\ policies # EmptyPolicies
    /\ StandardWindow(policies) = 10
    /\ PremiumExtension(policies) = 5

\* ordered_on + W days, from the calendar
LastDay(ordered_on, premium) ==
    LET day == <<ordered_on.y, ordered_on.m, ordered_on.d>>
    IN  CASE day = <<2024, 1, 1>> ->
                 IF premium THEN <<2024, 1, 16>> ELSE <<2024, 1, 11>>
          [] day = <<2023, 12, 25>> ->
                 IF premium THEN <<2024, 1, 9>> ELSE <<2024, 1, 4>>
          [] day = <<2024, 2, 20>> ->
                 IF premium THEN <<2024, 3, 6>> ELSE <<2024, 3, 1>>

\* a day is not after another
NotAfter(a, b) ==
    \/ a[1] < b[1]
    \/ a[1] = b[1] /\ a[2] < b[2]
    \/ a[1] = b[1] /\ a[2] = b[2] /\ a[3] <= b[3]

\* C6: for a snapshot with a parsable ordered_on and a status not in the
\* denylist, the ground truth is true exactly when the day of the evaluation
\* timestamp is not after ordered_on + W days, W being 10, or 15 for a
\* premium customer; the boundary day is inside.
TrueExactlyWithinWindow ==
    ( /\ Called
      /\ WindowsAreTenAndFive
      /\ gt_order.kind = "dict"
      /\ OrderedOnParses(gt_order)
      /\ gt_order.status # None
      /\ gt_order.status \notin DeniedStatuses(policies)
      /\ TimestampParses(gt_timestamp) ) =>
        LET premium ==
                /\ gt_order.customer.kind = "dict"
                /\ gt_order.customer.is_premium = True
            day == <<gt_timestamp.y, gt_timestamp.m, gt_timestamp.d>>
        IN  /\ gt_result \in {True, False}
            /\ gt_result = True
                   <=> NotAfter(day, LastDay(gt_order.ordered_on, premium))
            /\ (gt_order.ordered_on = DateText(2024, 1, 1) /\ ~premium) =>
                   /\ day = <<2024, 1, 11>> => gt_result = True
                   /\ day = <<2024, 1, 12>> => gt_result = False
            /\ (gt_order.ordered_on = DateText(2024, 1, 1) /\ premium) =>
                   /\ day = <<2024, 1, 16>> => gt_result = True
                   /\ day = <<2024, 1, 17>> => gt_result = False

\* a premium order of 2024-01-01 evaluated on its boundary day
PremiumOnBoundaryDay ==
    /\ Called
    /\ WindowsAreTenAndFive
    /\ gt_order.kind = "dict"
    /\ gt_order.ordered_on = DateText(2024, 1, 1)
    /\ gt_order.customer = PremiumCustomer
    /\ gt_order.status = "ordered"
    /\ gt_timestamp = Timestamp(2024, 1, 16, TRUE)
    /\ gt_result = True

\* the status of the snapshot is in the denylist of the loaded configuration
StatusDenied ==
    /\ gt_order.kind = "dict"
    /\ policies # EmptyPolicies
    /\ gt_order.status \in DeniedStatuses(policies)

DecisionWithoutGroundTruthCountedApart ==
    h_scored_without_gt = TRUE

\* a decision to cancel made before any snapshot of the order was fetched
DecisionBeforeAnySnapshot ==
    /\ pc = "loop"
    /\ h_case = "decision without ground truth"
    /\ turn_gt_cancellable_status = None
    /\ Delta("cancellation_llm_decision_no_gt") = 1
    /\ \A c \in ConfusionCells : Delta(c) = 0

(***************************************************************************)
(* Properties of the implicit true negative.                               *)
(***************************************************************************)
\* the turn in progress had an active cancellation query, its ground truth
\* is False, and no AGENT_DECISION_INTENT of it named order_cancellation
TurnInProgressDue ==
    /\ h_turn.open
    /\ turn_active_cancel_query
    /\ turn_gt_cancellable_status = False
    /\ ~h_turn.named

\* the session is over
SessionOver == pc = "main" /\ i >= 1

\* C11: tn_cancellation_implicit_avoidance is incremented at most once for a
\* turn: the AGENT_FINAL_RESPONSE trigger and the next USER_QUERY_RECEIVED
\* trigger never both credit the same turn.
ImplicitCreditAtMostOncePerTurn ==
    /\ h_turns.once
    /\ h_turn.tn <= 1
    /\ h_turns.closed.kind = "turn" => h_turns.closed.tn <= 1

\* a turn credited at its final response and then closed by the next query
CreditedAtFinalResponseThenClosed ==
    /\ h_turns.closed.kind = "turn"
    /\ h_turns.closed.due
    /\ h_turns.closed.by = "AGENT_FINAL_RESPONSE"
    /\ h_turns.closed.tn = 1
    /\ h_last_type = "USER_QUERY_RECEIVED"

CreditOnlyWithoutNamedCancellation ==
    h_turns.unnamed_only = TRUE

\* what the session has added to the four cells of the confusion matrix
CellSum ==
    Delta("tp_cancellation") + Delta("fp_cancellation")
    + Delta("tn_cancellation") + Delta("fn_cancellation")

\* turns of the session whose ground truth resolved and in which no
\* AGENT_DECISION_INTENT named order_cancellation
UndecidedResolvedTurns ==
    h_turns.undecided_closed
    + (IF h_turn.resolved /\ ~h_turn.named THEN 1 ELSE 0)

\* C14 as stated: the four cells plus tn_cancellation_implicit_avoidance
\* never exceed the number of cancellation-active turns with resolvable
\* ground truth plus the number of such turns with no explicit decision.
CellSumBoundedByTurns ==
    InSession =>
        CellSum + Delta("tn_cancellation_implicit_avoidance")
            <= h_turns.resolved_turns + UndecidedResolvedTurns

\* C14: the four cells never exceed the number of explicit decisions made
\* while the ground truth of the turn was resolved, and
\* tn_cancellation_implicit_avoidance never exceeds the number of
\* cancellation-active turns whose ground truth resolved; so their sum never
\* exceeds the sum of the two numbers.
CellSumBoundedByDecisionsAndTurns ==
    InSession =>
        /\ CellSum <= h_turns.scored_decisions
        /\ Delta("tn_cancellation_implicit_avoidance") <= h_turns.resolved_turns
        /\ CellSum + Delta("tn_cancellation_implicit_avoidance")
               <= h_turns.scored_decisions + h_turns.resolved_turns

\* a turn in which two explicit decisions were scored
TwoDecisionsScoredInOneTurn ==
    /\ pc = "loop"
    /\ h_turns.closed.kind = "none"
    /\ h_turns.resolved_turns = 1
    /\ h_turns.scored_decisions = 2
    /\ CellSum = 2

(***************************************************************************)
(* Agreement between the LLM's stated eligibility and the cancellation     *)
(* API.                                                                    *)
(***************************************************************************)
\* C15: every validated order_canceller execution whose derived success is
\* true or false incremented the approval total (true) or the denial total
\* (false), and besides exactly the bucket of (latest stated eligibility of
\* the turn, success) when that eligibility is true or false, and no bucket
\* when it is unknown.
ToolExecutionsCountedByBeliefAndSuccess == h_tool.scored

\* an execution approved before the turn stated anything, then one denied
\* after the turn stated the order eligible
ApprovedAfterUnknownThenDeniedAfterYes ==
    /\ pc = "loop"
    /\ session_fsm_ok
    /\ h_last_type = "AGENT_TOOL_EXECUTED"
    /\ h_tool.belief = True
    /\ Delta("llm_predicts_cancel_api_denies") = 1
    /\ Delta("order_canceller_api_denials") = 1
    /\ Delta("order_canceller_api_approvals") = 1
    /\ Delta("llm_predicts_cancel_api_agrees") = 0
    /\ Delta("llm_predicts_no_cancel_api_agrees") = 0

(***************************************************************************)
(* Exceptions and the end of the run.                                      *)
(***************************************************************************)
\* C16: processing an event never raises out of process_session_with_fsm,
\* whatever the event holds; the remaining events and the later sessions are
\* still processed.
NoEventRaisesOutOfTheLoop == pc # "raised"

\* C17: every run of main_telemetry_analysis_pipeline that ends has reached
\* print_final_metrics, also when no session was fetched: main never returns
\* without the report.
NoRunEndsWithoutReport == pc # "exited"

GroundTruthAgreesWithLiveCheck ==
    live_result # "not called" => gt_result = live_result

OnlyTheFirstEventsConfigurationChanges ==
    InSession =>
        /\ metrics[model_prompt_config]["total_sessions"]
               = h_before[model_prompt_config]["total_sessions"] + 1
        /\ \A config \in Configs \ {model_prompt_config} :
               \A c \in CounterNames : metrics[config][c] = h_before[config][c]

\* a session of the second configuration in which an order_canceller
\* execution, a row that carries the names of the first configuration, was
\* counted as an approval
ApprovalOfAnotherConfigurationsRow ==
    /\ pc = "loop"
    /\ model_prompt_config = SecondConfig
    /\ h_last_type = "AGENT_TOOL_EXECUTED"
    /\ Delta("order_canceller_api_approvals") = 1
    /\ metrics[FirstConfig] = h_before[FirstConfig]

DefaultDenylistDenies ==
    ( /\ Called
      /\ ~Falsy(policies)
      /\ policies.status_denylist.kind = "missing"
      /\ gt_order.kind = "dict"
      /\ OrderedOnParses(gt_order)
      /\ TimestampParses(gt_timestamp)
      /\ gt_order.status \in {"fulfilled", "delivering", "delivered"} ) =>
        gt_result = False

(***************************************************************************)
(* The loader and the reporter.                                            *)
(***************************************************************************)
\* the text is not null, not empty, and neither decoder accepts it
Undecodable(value) ==
    /\ value.kind = "str"
    /\ Strip(value.text) # <<>>
    /\ LowerText(Strip(value.text)) # <<"null">>
    /\ JsonLoads(Strip(value.text)) = DecodeError
    /\ LiteralEval(Strip(value.text)) = DecodeError

\* C24: in the event parse_event_row returns, a JSON-bearing column whose
\* text neither the strict nor the permissive decoder accepts is null, and
\* the other columns are decoded.
UndecodableColumnIsNull ==
    event.kind = "row" =>
        \A c \in JsonFields :
            IF Undecodable(row[c]) THEN event[c] = [kind |-> "none"]
            ELSE event[c] = ParseColumn(row[c])

\* C25: when the store raises a connection or query error,
\* fetch_and_group_telemetry returns, and the grouping it returns is empty,
\* never a part of the table.
StoreErrorGivesEmptyGrouping ==
    store_error # "none" =>
        /\ fetch_pc = "returned"
        /\ sessions_data = EmptyGrouping

\* cursor.fetchall() raised on a table of three rows
FetchAllRaisedOnThreeRows ==
    /\ fetch_pc = "returned"
    /\ store_error = "fetchall"
    /\ Len(table) = 3
    /\ sessions_data = EmptyGrouping

\* the divisor of each rate or average of the report, from the counters
DivisorOf(counts) ==
    LET evaluated == counts["tp_cancellation"] + counts["fp_cancellation"]
                     + counts["tn_cancellation"]
                     + counts["tn_cancellation_implicit_avoidance"]
                     + counts["fn_cancellation"]
    IN  [completed_percent |-> counts["total_sessions"],
         broken_percent |-> counts["total_sessions"],
         avg_depth_completed |-> counts["fsm_completed_sessions"],
         avg_depth_broken |-> counts["fsm_broken_sessions"],
         accuracy |-> evaluated,
         sensitivity |->
             counts["tp_cancellation"] + counts["fn_cancellation"],
         specificity |->
             counts["tn_cancellation"]
             + counts["tn_cancellation_implicit_avoidance"]
             + counts["fp_cancellation"],
         precision |->
             counts["tp_cancellation"] + counts["fp_cancellation"],
         agreement_rate_llm_cancel |->
             counts["llm_predicts_cancel_api_agrees"]
             + counts["llm_predicts_cancel_api_denies"],
         agreement_rate_llm_no_cancel |->
             counts["llm_predicts_no_cancel_api_agrees"]
             + counts["llm_predicts_no_cancel_api_denies_too"]]

\* every line of the report whose divisor is 0 is one of the given kinds
ZeroDivisorLinesAre(kinds) ==
    report.kind = "printed" =>
        \A c \in DOMAIN report.lines :
            \A l \in DOMAIN report.lines[c] :
                DivisorOf(metrics[c])[l] = 0 =>
                    report.lines[c][l].kind \in kinds

\* C26 (as stated): print_final_metrics never divides by zero, and each rate
\* or average whose divisor is 0 is reported as 0 or replaced by a
\* no-instances line.
ZeroDivisorIsZeroOrNoInstances ==
    /\ report # ZeroDivisionError
    /\ ZeroDivisorLinesAre({"zero", "no instances line"})

\* C26 (amended): print_final_metrics never divides by zero; each rate or
\* average whose divisor is 0 is reported as 0 or replaced by a no-instances
\* line, except the average depth of broken sessions, whose line is left out
\* when no session broke.
ZeroDivisorNeverDivides ==
    /\ report # ZeroDivisionError
    /\ ZeroDivisorLinesAre({"zero", "no instances line", "no line"})
    /\ report.kind = "printed" =>
           \A c \in DOMAIN report.lines :
               \A l \in DOMAIN report.lines[c] :
                   report.lines[c][l] = NoLine => l = "avg_depth_broken"

\* a report of two configurations: one with every counter 0, one with
\* false positives only, so that the sensitivity's divisor alone is 0
ReportOfAllZerosAndFalsePositivesOnly ==
    /\ report.kind = "printed"
    /\ DOMAIN report.lines = Configs
    /\ metrics[SecondConfig] = Counter
    /\ metrics[FirstConfig]["fp_cancellation"] > 0
    /\ metrics[FirstConfig]["tp_cancellation"] = 0
    /\ metrics[FirstConfig]["fn_cancellation"] = 0
    /\ report.lines[FirstConfig].sensitivity = Zero
    /\ report.lines[SecondConfig].accuracy = NoInstancesLine

\* C27: the turn in progress is cancellation-active exactly when the query of
\* the USER_QUERY_RECEIVED that opened it mentions cancel in any case, and no
\* event processed under a turn that is not active changes a confusion-matrix
\* cell, cancellation_decisions_made_by_llm, cancellation_llm_decision_no_gt
\* or tn_cancellation_implicit_avoidance.
ActiveIffQueryMentionsCancel ==
    /\ turn_active_cancel_query = h_scope.active
    /\ h_scope.quiet

\* after a scored turn opened by "Cancel it", a turn opened by "can it" holds
\* a validated decision that names order_cancellation
DecisionInATurnThatIsNotActive ==
    /\ pc = "loop"
    /\ h_valid
    /\ ~h_scope.active
    /\ h_turn.named
    /\ metrics[FirstConfig]["cancellation_decisions_made_by_llm"] = 1

TrackedIdIsTheFirstNamed == turn_cancel_order_id = h_scope.first_id

\* the turn tracks ORD1 and a later validated event of it named another order
AnotherOrderNamedAfterTheFirst ==
    /\ pc = "loop"
    /\ h_valid
    /\ h_scope.other_id_seen
    /\ turn_cancel_order_id = "ORD1"

\* C30: the turn's order snapshot, ground truth and evaluation timestamp are
\* set only by a validated AGENT_TOOL_EXECUTED event of order_tracker, in a
\* cancellation-active turn, whose decoded response carries an order_id equal
\* to the turn's tracked order id; the snapshot is that response and the
\* evaluation timestamp is the event's own.
SnapshotOnlyFromTheTrackedOrder == h_scope.snapshot_matched

(***************************************************************************)
(* Decisions, tool outcomes and totals.                                    *)
(***************************************************************************)
\* C31 (a consequence of it): a turn that has tracked no order id records no
\* explicit decision, so it never holds a stated eligibility, which only the
\* recording of an explicit decision stores.
NoDecisionWithoutATrackedOrder ==
    turn_cancel_order_id = None =>
        turn_llm_perceived_eligibility_for_tool_call = None

\* C32: the success by which an order_canceller execution is counted is the
\* row's tool_response_success when that field is not null, otherwise the
\* success key of the decoded response when it is an object with that key;
\* when neither yields true or false no approval, denial or agreement
\* counter changes.
CancellerCountedByItsStoredSuccess == h_tool.by_stored_success

CompletedAndBrokenWithinTotal ==
    /\ \A c \in Configs :
           metrics[c]["fsm_completed_sessions"] + metrics[c]["fsm_broken_sessions"]
               <= metrics[c]["total_sessions"]
    /\ model_prompt_config # <<None, None>> =>
           Delta("fsm_completed_sessions") + Delta("fsm_broken_sessions") <= 1

\* three sessions of one configuration were processed: one completed, one
\* broken, and one valid but left without a final response
OneCompletedOneBrokenOneOpen ==
    /\ pc = "main"
    /\ metrics[FirstConfig]["total_sessions"] = 3
    /\ metrics[FirstConfig]["fsm_completed_sessions"] = 1
    /\ metrics[FirstConfig]["fsm_broken_sessions"] = 1

\* C35: for every configuration cancellation_decisions_made_by_llm =
\* cancellation_evaluations_vs_gt_possible + cancellation_llm_decision_no_gt,
\* and, as long as every eligibility scored against a ground truth was true,
\* false or absent (so in particular when every eligibility of the sessions
\* is), cancellation_evaluations_vs_gt_possible = tp_cancellation +
\* fp_cancellation + tn_cancellation + fn_cancellation.
DecisionTotalsAddUp ==
    \A c \in Configs :
        /\ metrics[c]["cancellation_decisions_made_by_llm"] =
               metrics[c]["cancellation_evaluations_vs_gt_possible"]
               + metrics[c]["cancellation_llm_decision_no_gt"]
        /\ h_scope.boolean_eligibility =>
               metrics[c]["cancellation_evaluations_vs_gt_possible"] =
                   metrics[c]["tp_cancellation"] + metrics[c]["fp_cancellation"]
                   + metrics[c]["tn_cancellation"] + metrics[c]["fn_cancellation"]

\* one decision was made before the ground truth was known and a denial was
\* then scored as a false negative
DecisionWithoutAndWithGroundTruth ==
    /\ h_scope.boolean_eligibility
    /\ metrics[FirstConfig]["cancellation_decisions_made_by_llm"] = 2
    /\ metrics[FirstConfig]["cancellation_llm_decision_no_gt"] = 1
    /\ metrics[FirstConfig]["fn_cancellation"] = 1

\* C36: total_fsm_depth_completed is the sum of the event counts of exactly
\* the sessions counted in fsm_completed_sessions; in particular it is 0 for
\* a configuration that has no completed session.
DepthTotalOnlyOfCompletedSessions ==
    \A c \in Configs :
        metrics[c]["fsm_completed_sessions"] = 0 =>
            metrics[c]["total_fsm_depth_completed"] = 0

not_chat_vars ==
    <<policies, metrics, pc, rows, model_prompt_config, i, fsm_vars, turn_vars,
      gt_vars, h_vars, solo_vars, row, event, fetch_vars, report, order_vars>>

\* the tools of the agent
AgentTools == {"order_tracker", "order_canceller"}

\* what ainvoke can return as intermediate_steps: the tool of each step
StepLists == UNION { [1..n -> AgentTools] : n \in 0..MaxSteps }

\* a telemetry event of the call: its type and its tool_name
ChatEvent(type, tool) == [event_type |-> type, tool_name |-> tool]

\* TelemetryClient.log_event: the event is posted; a failed post is printed
\* and swallowed, and the event is not stored
LogEvent(type, tool) ==
    /\ logged' = Append(logged, ChatEvent(type, tool))
    /\ \E posted \in BOOLEAN :
           stored' = IF posted THEN Append(stored, ChatEvent(type, tool))
                     ELSE stored

\* where the call goes on once `steps` are left to log
AfterSteps(steps) == IF steps = <<>> THEN "final" ELSE "intent"

InitChat ==
    /\ policies = SessionPolicies
    /\ InitSession
    /\ gt_order = NoSnapshot
    /\ gt_timestamp = [kind |-> "text"]
    /\ gt_result = "not called"
    /\ gt_rerun = "not called"
    /\ live_result = "not called"
    /\ wall_clock = FirstRunDay
    /\ row = NoRow
    /\ event = NotParsed
    /\ InitFetchIdle
    /\ report = NotPrinted
    /\ chat_pc = "start"
    /\ intermediate_steps = <<>>
    /\ logged = <<>>
    /\ stored = <<>>
    /\ orders = <<>>
    /\ cancel_result = NoCancelResult
    /\ utc_now = 0

\* lines 82-90: USER_QUERY_RECEIVED is logged before the agent is invoked
LogUserQueryReceived ==
    /\ chat_pc = "start"
    /\ LogEvent("USER_QUERY_RECEIVED", None)
    /\ chat_pc' = "invoke"
    /\ UNCHANGED <<intermediate_steps, not_chat_vars>>

\* lines 92-95: ainvoke returns a result with its intermediate steps
AgentInvokeReturns ==
    /\ chat_pc = "invoke"
    /\ \E steps \in StepLists :
           /\ intermediate_steps' = steps
           /\ chat_pc' = AfterSteps(steps)
    /\ UNCHANGED <<logged, stored, not_chat_vars>>

\* lines 95-96: ainvoke raises
AgentInvokeRaises ==
    /\ chat_pc = "invoke"
    /\ chat_pc' = "error"
    /\ UNCHANGED <<intermediate_steps, logged, stored, not_chat_vars>>

\* variant: after AGENT_ERROR the call goes on to the final response
LogAgentErrorAndGoOn ==
    /\ chat_pc = "error"
    /\ LogEvent("AGENT_ERROR", None)
    /\ chat_pc' = "final"
    /\ UNCHANGED <<intermediate_steps, not_chat_vars>>

\* lines 97-106: AGENT_ERROR is logged and the call returns
LogAgentError ==
    /\ chat_pc = "error"
    /\ LogEvent("AGENT_ERROR", None)
    /\ chat_pc' = "returned"
    /\ UNCHANGED <<intermediate_steps, not_chat_vars>>

\* lines 116-143: the AGENT_DECISION_INTENT of the next step
LogDecisionIntent ==
    /\ chat_pc = "intent"
    /\ LogEvent("AGENT_DECISION_INTENT", Head(intermediate_steps))
    /\ chat_pc' = "tool"
    /\ UNCHANGED <<intermediate_steps, not_chat_vars>>

\* lines 145-155: the AGENT_TOOL_EXECUTED of the same step
LogToolExecuted ==
    /\ chat_pc = "tool"
    /\ LogEvent("AGENT_TOOL_EXECUTED", Head(intermediate_steps))
    /\ intermediate_steps' = Tail(intermediate_steps)
    /\ chat_pc' = AfterSteps(Tail(intermediate_steps))
    /\ UNCHANGED not_chat_vars

\* lines 157-169: AGENT_FINAL_RESPONSE is logged and the call returns
LogFinalResponse ==
    /\ chat_pc = "final"
    /\ LogEvent("AGENT_FINAL_RESPONSE", None)
    /\ chat_pc' = "returned"
    /\ UNCHANGED <<intermediate_steps, not_chat_vars>>

NextChat ==
    \/ LogUserQueryReceived
    \/ AgentInvokeReturns
    \/ AgentInvokeRaises
    \/ LogAgentError
    \/ LogDecisionIntent
    \/ LogToolExecuted
    \/ LogFinalResponse

SpecChat == InitChat /\ [][NextChat]_vars

\* the event types of a sequence of events
TypesOf(events) == [k \in 1..Len(events) |-> events[k].event_type]

\* fsm_processor.py lines 95-118 and 275-279 on the event types of a session:
\* the session stays valid and is counted as completed
AcceptedAsCompleted(types) ==
    /\ Len(types) > 0
    /\ types[1] = INITIAL_STATE_TYPE
    /\ \A k \in 1..(Len(types) - 1) :
           /\ types[k] \in DOMAIN VALID_TRANSITIONS
           /\ types[k + 1] \in VALID_TRANSITIONS[types[k]]
    /\ types[Len(types)] = "AGENT_FINAL_RESPONSE"

\* C38: one call of process_message logs USER_QUERY_RECEIVED first, then for
\* each intermediate step an AGENT_DECISION_INTENT immediately followed by
\* its AGENT_TOOL_EXECUTED, then AGENT_FINAL_RESPONSE last, or, when the
\* invocation fails, USER_QUERY_RECEIVED and AGENT_ERROR alone; the events of
\* a call that did not fail are accepted by the validator as a completed
\* session.
ProcessMessageLogsInOrder ==
    LET types == TypesOf(logged)
        n == Len(types)
    IN  /\ n > 0 => types[1] = "USER_QUERY_RECEIVED"
        /\ \A k \in 2..n :
               CASE types[k] = "AGENT_DECISION_INTENT" ->
                        types[k - 1] \in {"USER_QUERY_RECEIVED",
                                          "AGENT_TOOL_EXECUTED"}
                 [] types[k] = "AGENT_TOOL_EXECUTED" ->
                        /\ types[k - 1] = "AGENT_DECISION_INTENT"
                        /\ logged[k].tool_name = logged[k - 1].tool_name
                 [] types[k] = "AGENT_FINAL_RESPONSE" ->
                        /\ types[k - 1] \in {"USER_QUERY_RECEIVED",
                                             "AGENT_TOOL_EXECUTED"}
                        /\ k = n
                 [] types[k] = "AGENT_ERROR" -> k = 2 /\ n = 2
                 [] OTHER -> FALSE
        /\ chat_pc = "returned" =>
               /\ types[n] \in {"AGENT_FINAL_RESPONSE", "AGENT_ERROR"}
               /\ types[n] = "AGENT_FINAL_RESPONSE" =>
                      /\ AcceptedAsCompleted(types)
                      /\ stored = logged => AcceptedAsCompleted(TypesOf(stored))

\* a call with as many steps as the invocation can return has returned, and
\* every event was stored
CallWithEveryStepHasReturned ==
    /\ chat_pc = "returned"
    /\ Len(logged) = 2 * MaxSteps + 2
    /\ stored = logged

(***************************************************************************)
(* order_crud.attempt_cancel_order on the order table of the mock API.     *)
(***************************************************************************)
\* everything but the variables of attempt_cancel_order
not_order_vars ==
    <<metrics, pc, rows, model_prompt_config, i, fsm_vars, turn_vars,
      gt_order, gt_timestamp, gt_result, gt_rerun, live_result, h_vars,
      solo_vars, row, event, fetch_vars, report, chat_vars>>

\* the table has no row for the order id
NoOrder == [kind |-> "none"]

\* a row of the order table
StoredOrder(ordered_on, status, customer, cancellation_reason, last_updated) ==
    [kind |-> "order", ordered_on |-> ordered_on, status |-> status,
     customer |-> customer, cancellation_reason |-> cancellation_reason,
     last_updated |-> last_updated]

\* the orders a table can hold under an id: placed within the window or
\* before it, in every status, of a standard or premium customer or of none
StoredOrders ==
    { StoredOrder(day, status, customer,
                  IF status = "cancelled" THEN "ordered twice" ELSE None, 0) :
        day \in { [kind |-> "date", y |-> 2024, m |-> 1, d |-> 1],
                  [kind |-> "date", y |-> 2023, m |-> 12, d |-> 24],
                  [kind |-> "date", y |-> 2023, m |-> 11, d |-> 1] },
        status \in OrderStatus,
        customer \in {StandardCustomer, PremiumCustomer, [kind |-> "none"]} }

\* a configuration whose status_denylist is a number
PoliciesWithNumberAsDenylist ==
    ConfiguredPolicies(Given(10), Given(5), [kind |-> "number"])

\* the reason a caller gives
Reasons == {None, "", "no longer needed"}

\* PolicyDecision.violated_rule of check_policies(order, "cancel_order")
ViolatedRule(order, today, policy_source) ==
    LET config == DomainPolicyConfig(policy_source)
    IN  IF config.status_denylist.kind = "number" THEN "rule_execution_error"
        ELSE IF ~check_order_status_for_cancellation(order, config)
        THEN "check_order_status_for_cancellation"
        ELSE IF ~check_within_time_window(order, config, today)
        THEN "check_within_time_window"
        ELSE None

\* variant: the order is cancelled whatever check_policies decides
AttemptCancelWithoutPolicies(table_rows, order_id, reason, now, today, policy_source) ==
    LET order == table_rows[order_id]
    IN  IF order.kind = "none"
        THEN [orders |-> table_rows,
              result |-> [order_id |-> order_id, success |-> False,
                          message |-> "Order not found.",
                          violated_rule |-> None]]
        ELSE [orders |->
                  [table_rows EXCEPT ![order_id] =
                      [order EXCEPT !.status = "cancelled",
                                    !.last_updated = now]],
              result |-> [order_id |-> order_id, success |-> True,
                          message |-> "Order cancelled successfully.",
                          violated_rule |-> None]]

\* attempt_cancel_order: the table after the call and the dict returned
attempt_cancel_order(table_rows, order_id, reason, now, today, policy_source) ==
    LET order == table_rows[order_id]
        result(success, message, rule) ==
            [order_id |-> order_id, success |-> success, message |-> message,
             violated_rule |-> rule]
    IN  IF order.kind = "none"
        THEN [orders |-> table_rows,
              result |-> result(False, "Order not found.", None)]
        ELSE IF order.status = "cancelled"
        THEN [orders |-> table_rows,
              result |-> result(True, "Order is already cancelled.", None)]
        ELSE IF check_policies(order, "cancel_order", today, policy_source) # True
        THEN [orders |-> table_rows,
              result |-> result(False, "policy_decision.message",
                                ViolatedRule(order, today, policy_source))]
        ELSE [orders |->
                  [table_rows EXCEPT ![order_id] =
                      [order EXCEPT
                          !.status = "cancelled",
                          !.last_updated = now,
                          !.cancellation_reason =
                              IF reason \notin {None, ""} THEN reason ELSE @]],
              result |-> result(True, "Order cancelled successfully.", None)]

InitOrders ==
    /\ policies \in {SessionPolicies, EmptyPolicies, PoliciesWithNumberAsDenylist}
    /\ InitSession
    /\ gt_order = NoSnapshot
    /\ gt_timestamp = [kind |-> "text"]
    /\ gt_result = "not called"
    /\ gt_rerun = "not called"
    /\ live_result = "not called"
    /\ wall_clock = FirstRunDay
    /\ row = NoRow
    /\ event = NotParsed
    /\ InitFetchIdle
    /\ report = NotPrinted
    /\ chat_pc = "idle"
    /\ intermediate_steps = <<>>
    /\ logged = <<>>
    /\ stored = <<>>
    /\ orders \in [OrderIds -> StoredOrders \cup {NoOrder}]
    /\ orders["ORD2"] = NoOrder
    /\ cancel_result = NoCancelResult
    /\ utc_now = 0

\* one call of attempt_cancel_order; the clock has moved on since the rows
\* were written
AttemptCancelOrder ==
    /\ utc_now < MaxCancelCalls
    /\ utc_now' = utc_now + 1
    /\ \E order_id \in OrderIds, reason \in Reasons :
           LET call == attempt_cancel_order(orders, order_id, reason,
                                            utc_now + 1, wall_clock, policies)
           IN  /\ orders' = call.orders
               /\ cancel_result' = call.result
    /\ UNCHANGED <<policies, wall_clock, not_order_vars>>

NextOrders == AttemptCancelOrder

SpecOrders == InitOrders /\ [][NextOrders]_vars

\* C39: attempt_cancel_order sets an order's status to cancelled only when
\* check_policies allows cancel_order for it; when the order is not found, is
\* already cancelled, or a rule denies or raises, the stored order (status,
\* cancellation_reason, last_updated) stays as it was; an order that is
\* already cancelled is reported as success.
CancelledOnlyWhenPoliciesAllow ==
    [][ /\ \A o \in OrderIds :
               orders'[o] # orders[o] =>
                   /\ cancel_result'.order_id = o
                   /\ orders[o].kind = "order"
                   /\ orders[o].status # "cancelled"
                   /\ check_policies(orders[o], "cancel_order", wall_clock,
                                     policies) = True
                   /\ orders'[o].kind = "order"
                   /\ orders'[o].status = "cancelled"
                   /\ cancel_result'.success = True
        /\ LET o == cancel_result'.order_id
           IN  /\ cancel_result'.success = False => orders' = orders
               /\ (orders[o].kind = "order" /\ orders[o].status = "cancelled") =>
                      /\ cancel_result'.success = True
                      /\ orders' = orders
               /\ (orders[o].kind = "order" /\ orders[o].status # "cancelled"
                     /\ check_policies(orders[o], "cancel_order", wall_clock,
                                       policies) = True) =>
                      /\ orders'[o].status = "cancelled"
                      /\ cancel_result'.success = True
      ]_vars

\* a rule raised on an order that could otherwise be cancelled: the call was
\* denied and the row is as it was written
DeniedByARuleThatRaised ==
    /\ cancel_result.order_id = "ORD1"
    /\ cancel_result.success = False
    /\ cancel_result.violated_rule = "rule_execution_error"
    /\ orders["ORD1"].kind = "order"
    /\ orders["ORD1"].status = "ordered"
    /\ orders["ORD1"].cancellation_reason = None
    /\ orders["ORD1"].last_updated = 0

=============================================================================
